---- MODULE Spec2Model ----
(***************************************************************************)
(* Model of zikrr's concurrent repository synchronisation engine            *)
(* (internal/git): RepositoryManager.CloneAll, the ConcurrentCloner's       *)
(* admission gate (CloneRepositories) and the per-target executor           *)
(* (CloneRepository, handleExistingRepo, fetchAndUpdate).                   *)
(*                                                                         *)
(* A string is a sequence of tokens; strings.Contains(s, w) holds when w is *)
(* one of the tokens of s. An error is a string, the nil error the empty    *)
(* one. A time.Duration is counted in whole seconds. The closure variable   *)
(* of CloneAll's loop is bound per iteration: each job's ProgressFunc       *)
(* updates the Repository the job was built from. A git invocation is one   *)
(* step; when the context is cancelled, a process that is running is killed *)
(* and fails with its exit error, and one that is not started yet fails     *)
(* with the context's error. repo.mu is a state variable: Lock, the guarded *)
(* field update with Unlock, and the send that follows are separate steps.  *)
(*                                                                         *)
(* The front end (internal/cli/tui, internal/github) is modelled beside it: *)
(* the organization input and the selection view of the tui Model, one key  *)
(* or message per step, and the listing call of the github Client with its  *)
(* rate-limit wait, on a clock that counts seconds. startCloning being a    *)
(* stub, the front end and the engine share no state.                       *)
(***************************************************************************)
EXTENDS Integers, Sequences, FiniteSets, TLC

\* ------------------------------------------------------------------ bounds
MaxTargets == 2
MaxSlots == 2
MaxPasses == 2

\* --------------------------------------------------------------- constants
\* DefaultCloneOptions().MaxRetries
MaxRetries == 3
\* time.Second, the unit of a Duration here
Second == 1

\* ExistingRepoStrategy
SkipExisting == "SkipExisting"
OverwriteExisting == "OverwriteExisting"
FetchOnly == "FetchOnly"
Strategies == {SkipExisting, OverwriteExisting, FetchOnly}

\* RepositoryStatus
StatusPending == "Pending"
StatusCloning == "Cloning"
StatusRetrying == "Retrying"
StatusSuccess == "Success"
StatusFailed == "Failed"
StatusSkipped == "Skipped"
StatusUpdating == "Updating"

\* ---------------------------------------------------------------- inputs
\* Repository names the caller may register; the clone URL and the target
\* directory embed the name.
PlainNames == <<"alpha", "beta", "gamma", "delta">>
Names == {PlainNames[i] : i \in 1..Len(PlainNames)} \cup {"Updating", "Skipping"}
Organization == "acme"
BaseDir == "/repos"
\* What the target directory may be before a pass: missing, a directory
\* without .git, or a working copy.
DirStates == {"absent", "dir", "repo"}
\* Combined output of a failing git invocation.
GitOutputs == {<<"fatal: unable to access">>}
\* How a git invocation that was started can fail: git exits with an error,
\* or the per-invocation timeout fires and the process is killed.
ExitErrors == {"exit status 128", "signal: killed"}
\* ctx.Err() after cancellation
Canceled == "context canceled"
\* The process working directory before a pass.
OrigDir == "."

NoError == <<>>
\* the zero CloneResult
NoResult == [RepoURL |-> <<>>, Success |-> FALSE, Error |-> NoError]
\* where a worker is when it runs git
GitPcs == {"clone", "fetch", "reset"}

VARIABLES
    repositories,  \* rm.repositories: sequence of Repository
    maxConcurrent, \* c.maxConcurrent = cap(c.semaphore)
    semaphore,     \* number of tokens held in c.semaphore
    wg,            \* c.wg counter
    fs,            \* state of each target directory, by repository name
    cwd,           \* process working directory
    jobs,          \* cloneOpts of the pass: indices into repositories
    launched,      \* number of jobs the launcher goroutine has started
    worker,        \* per job: position and locals of its goroutine
    results,       \* buffered channel of CloneResult
    resultsClosed,
    updates,       \* buffered channel of *Repository (indices)
    updatesClosed,
    collector,     \* CloneAll goroutine: position and current repo
    panicked,      \* a send on a closed channel happened
    oplog,         \* per target: the side effects its executor performed
    sent,          \* per job: CloneResults it sent
    applied,       \* per target: outcomes the collector applied to it
    inputs,        \* what the caller may register in this run
    fs0,           \* state of each target directory before the pass
    ctxDone,       \* the context passed to CloneAll has been cancelled
    pass,          \* number of CloneAll calls made
    mu,            \* per target: who holds repo.mu
    seen,          \* per target: the events the consumer received, in order
    m,             \* the tui Model
    client,        \* the github Client's listing call, with the clock
    filtering      \* a call of FilterRepositories: its arguments and locals

vars == <<repositories, maxConcurrent, semaphore, wg, fs, cwd, jobs, launched,
          worker, results, resultsClosed, updates, updatesClosed, collector,
          panicked, oplog, sent, applied, inputs, fs0, ctxDone, pass, mu, seen,
          m, client, filtering>>

\* the state of the front end, which the synchronisation engine leaves alone
front == <<m, client, filtering>>

\* the state of the synchronisation engine, which the front end leaves alone
engine == <<repositories, maxConcurrent, semaphore, wg, fs, cwd, jobs, launched,
            worker, results, resultsClosed, updates, updatesClosed, collector,
            panicked, oplog, sent, applied, inputs, fs0, ctxDone, pass, mu,
            seen>>

Targets == 1..MaxTargets

\* ------------------------------------------------------------- strings
Contains(s, w) == \E i \in 1..Len(s) : s[i] = w

\* fmt.Errorf("<prefix>: %w", err)
Wrap(prefix, err) == <<prefix>> \o err

\* fmt.Sprintf("%v", d) of a Duration below one minute
FormatDuration(d) == <<ToString(d \div Second), "s">>

URLOf(name) == <<"https://github.com/", Organization, "/", name, ".git">>

\* filepath.Join(rm.baseDir, repo.Organization, repo.Name)
TargetDir(t) == <<BaseDir, "/", repositories[t].Organization, "/", repositories[t].Name>>

\* ------------------------------------------------------------- helpers
\* msg is the progress message of the ProgressFunc call under way and seq
\* the number of calls made; inflight tells that the operation the worker is
\* at was running when the context was cancelled, hit that there was one,
\* and ctxErr that the last git invocation failed because of the context.
IdleWorker == [pc |-> "idle", next |-> "idle", attempt |-> 0, err |-> NoError,
               lastErr |-> NoError, currentDir |-> OrigDir, msg |-> <<>>,
               seq |-> 0, inflight |-> FALSE, hit |-> FALSE, ctxErr |-> FALSE]

\* sync.RWMutex repo.mu: free, or held by the target's worker (in its
\* ProgressFunc) or by the result loop
Free == "free"

\* One side effect of an executor: arg is the attempt number of a clone and
\* the seconds of a sleep; dir is the working directory a fetch or reset ran
\* in; ok tells whether the operation succeeded.
Op(name, arg, dir, ok) == [op |-> name, arg |-> arg, dir |-> dir, ok |-> ok]

Log(t, name, arg, dir, ok) ==
    [oplog EXCEPT ![t] = Append(@, Op(name, arg, dir, ok))]

DirOf(t) == repositories[t].Name

\* isGitRepo that takes any existing directory for a working copy
isGitRepo_AnyDirectory(t) == fs[repositories[t].Name] # "absent"

\* isGitRepo(opts.TargetDir)
isGitRepo(t) == fs[repositories[t].Name] = "repo"

\* a backoff that grows linearly instead of doubling
Backoff_Linear(attempt) == attempt * Second

\* backoff := time.Duration(1<<uint(attempt-1)) * time.Second
Backoff(attempt) == (2 ^ (attempt - 1)) * Second

\* what GetStatus returns of target t when no writer holds its lock
Fields(t) == [Status |-> repositories[t].Status,
              Error |-> repositories[t].Error,
              Progress |-> repositories[t].Progress]

\* StatusOfMessage that marks the target Retrying on a retry message
StatusOfMessage_Retrying(status) ==
    IF Contains(status, "Updating") THEN StatusUpdating
    ELSE IF Contains(status, "Skipping") THEN StatusSkipped
    ELSE IF Contains(status, "Retrying in ") THEN StatusRetrying
    ELSE StatusCloning

\* The status CloneAll's ProgressFunc derives from a progress message.
StatusOfMessage(status) ==
    IF Contains(status, "Updating") THEN StatusUpdating
    ELSE IF Contains(status, "Skipping") THEN StatusSkipped
    ELSE StatusCloning

\* opts.ProgressFunc(status): the fields updated under repo.mu (lines 131-141)
ProgressFunc(t, status) ==
    [repositories EXCEPT ![t].Progress = status,
                         ![t].Status = StatusOfMessage(status)]

\* The worker calls opts.ProgressFunc(status) and is at repo.mu.Lock(); it
\* goes on at `next` once the callback has returned.
AtCall(status, next, w) ==
    [w EXCEPT !.pc = "lock", !.next = next, !.msg = status, !.seq = @ + 1]

\* The error of a git invocation that fails: ctx.Err() from cmd.Start when
\* the context was done before the process started, the exit error of the
\* killed process when the context was cancelled while it ran, otherwise
\* one of the ordinary failures.
GitFailures(t) ==
    IF ctxDone
    THEN IF worker[t].inflight THEN {"signal: killed"} ELSE {Canceled}
    ELSE inputs.exits

\* the combined output that goes with a failure
OutputsOf(e) == IF e = Canceled THEN {<<>>} ELSE GitOutputs

\* a git invocation has ended
GitEnded(w) == [w EXCEPT !.inflight = FALSE, !.ctxErr = ctxDone]

\* ------------------------------------------------------------- front end
\* View
ViewOrganization == "ViewOrganization"
ViewRepositories == "ViewRepositories"
ViewProgress == "ViewProgress"

\* const reposPerPage
reposPerPage == 10

\* the keys a user may press: at most MaxKeys of them in a run
MaxKeys == 6
\* the runes a user may type into the organization input; q and ctrl+c
\* never reach a view (Update quits on them)
Runes == {"a", " "}
OrganizationKeys == {"enter", "backspace"} \cup Runes
RepositoriesKeys == {"up", "down", "left", "right", " ", "f", "enter", "x"}
ProgressKeys == {"x"}
\* the keys Model.Update answers with tea.Quit before it looks at the view
QuitKeys == {"ctrl+c", "q"}

\* the API pages a listing may take, as the server's NextPage decides
MaxPages == 2
\* the readings of the clock, and of the rate limit's quota
MaxClock == 2
MaxQuota == 1
\* the numbers of repositories an organization may list
RepoCounts == {0, 1, 2, reposPerPage + 1}

\* repo.GetFullName() of the i-th listed repository
FullName(i) == "acme/r" \o ToString(i)

\* make(map[string]bool)
EmptyMap == [k \in {} |-> FALSE]

\* m[k] of a map[string]bool: the zero value for a missing key
MapGet(map, k) == IF k \in DOMAIN map THEN map[k] ELSE FALSE

\* m[k] = v
MapSet(map, k, v) ==
    [x \in DOMAIN map \cup {k} |-> IF x = k THEN v ELSE map[x]]

\* strings.TrimSpace of an input of runes
RECURSIVE TrimLeft(_)
TrimLeft(s) == IF s # <<>> /\ Head(s) = " " THEN TrimLeft(Tail(s)) ELSE s

RECURSIVE TrimRight(_)
TrimRight(s) ==
    IF s # <<>> /\ s[Len(s)] = " " THEN TrimRight(SubSeq(s, 1, Len(s) - 1))
    ELSE s

TrimSpace(s) == TrimRight(TrimLeft(s))

\* NewModel(ctx, client), with NewOrganizationModel and NewRepositoriesModel;
\* cmd is the tea.Cmd the last Update returned, keys the number of keys
\* pressed so far, quitKey the key that ended the program
NewModel ==
    [currentView |-> ViewOrganization,
     organization |-> [input |-> <<>>, name |-> <<>>, error |-> NoError],
     repositories |-> [repositories |-> <<>>, selectedRepos |-> EmptyMap,
                       cursor |-> 0, page |-> 0, totalPages |-> 0,
                       filterVisible |-> FALSE, error |-> NoError],
     cmd |-> "nil", quit |-> FALSE, quitKey |-> "", keys |-> 0]

\* NewClient(ctx, token) before any call: pc is the position of the listing
\* call, now the clock, info what GetRateLimit answered, deadline when the
\* timer of WaitForRateLimit fires, page the API page to ask for next of the
\* pages the server serves, log the waits and requests made
NewClient ==
    [pc |-> "idle", now |-> 0, info |-> [Remaining |-> 0, Reset |-> 0],
     deadline |-> 0, ctxDone |-> FALSE, err |-> NoError, page |-> 0,
     pages |-> 0, count |-> 0, log |-> <<>>]

\* RepositoriesModel.SetRepositories(repos)
SetRepositories(r, repos) ==
    [r EXCEPT !.repositories = repos,
              !.totalPages = (Len(repos) + reposPerPage - 1) \div reposPerPage,
              !.page = 0,
              !.cursor = 0]

\* RepositoriesModel.GetPageRepos()
GetPageRepos(r) ==
    LET start == r.page * reposPerPage
        stop == IF start + reposPerPage > Len(r.repositories)
                THEN Len(r.repositories) ELSE start + reposPerPage IN
    IF start >= Len(r.repositories) THEN <<>>
    ELSE SubSeq(r.repositories, start + 1, stop)

\* ------------------------------------------------------ FilterRepositories
\* strings.ToLower of the topics and languages used here
ToLower(s) ==
    CASE s = "Go" -> "go"
      [] s = "GO" -> "go"
      [] s = "CLI" -> "cli"
      [] s = "Rust" -> "rust"
      [] OTHER -> s

\* strings.EqualFold
EqualFold(a, b) == ToLower(a) = ToLower(b)

\* A github.Repository as the filter reads it: GetPrivate, Topics,
\* GetUpdatedAt (0 is the zero time), GetSize, GetLanguage, GetArchived and
\* GetFork.
SampleRepos ==
    <<[Private |-> FALSE, Topics |-> <<"Go", "CLI">>, UpdatedAt |-> 2,
       Size |-> 7, Language |-> "Go", Archived |-> FALSE, Fork |-> FALSE],
      [Private |-> TRUE, Topics |-> <<>>, UpdatedAt |-> 1,
       Size |-> 0, Language |-> "", Archived |-> TRUE, Fork |-> TRUE],
      [Private |-> FALSE, Topics |-> <<"go">>, UpdatedAt |-> 0,
       Size |-> 6, Language |-> "go", Archived |-> TRUE, Fork |-> FALSE],
      [Private |-> TRUE, Topics |-> <<"cli">>, UpdatedAt |-> 2,
       Size |-> 10, Language |-> "Rust", Archived |-> FALSE, Fork |-> TRUE]>>

\* the longest list of repositories given to the filter
MaxList == 2

\* the lists of repositories given to the filter; a repository may be
\* listed twice
RepoLists ==
    UNION {[1..n -> {SampleRepos[k] : k \in 1..Len(SampleRepos)}] :
               n \in 0..MaxList}

\* a *bool: <<>> is nil
BoolPointers == {<<>>, <<TRUE>>, <<FALSE>>}

\* RepositoryFilter, Visibility being one of the values its comment names
Filters ==
    [Visibility : {"", "all", "public", "private"},
     Topics : {<<>>, <<"GO">>, <<"go", "cli">>},
     UpdatedAfter : 0..2,
     MinSize : {0, 6},
     MaxSize : {0, 6},
     Language : {"", "GO", "Rust"},
     Archived : BoolPointers,
     Fork : BoolPointers]

\* a *RepositoryFilter: <<>> is nil
FilterPointers == {<<>>} \cup {<<f>> : f \in Filters}

\* hasAllTopics that compares topics as they are written
hasAllTopics_CaseSensitive(repoTopics, requiredTopics) ==
    IF Len(requiredTopics) = 0 THEN TRUE
    ELSE IF Len(repoTopics) = 0 THEN FALSE
    ELSE LET topicMap == {repoTopics[j] : j \in 1..Len(repoTopics)} IN
         \A k \in 1..Len(requiredTopics) : requiredTopics[k] \in topicMap

\* hasAllTopics(repoTopics, requiredTopics): topicMap holds the lowered
\* topics of the repository
hasAllTopics(repoTopics, requiredTopics) ==
    IF Len(requiredTopics) = 0 THEN TRUE
    ELSE IF Len(repoTopics) = 0 THEN FALSE
    ELSE LET topicMap ==
                 {ToLower(repoTopics[j]) : j \in 1..Len(repoTopics)} IN
         \A k \in 1..Len(requiredTopics) :
             ToLower(requiredTopics[k]) \in topicMap

\* matchesFilter(repo, filter)
matchesFilter(repo, filter) ==
    IF /\ filter.Visibility # "" /\ filter.Visibility # "all"
       /\ \/ filter.Visibility = "public" /\ repo.Private
          \/ filter.Visibility = "private" /\ ~repo.Private
    THEN FALSE
    ELSE IF Len(filter.Topics) > 0 /\ ~hasAllTopics(repo.Topics, filter.Topics)
    THEN FALSE
    ELSE IF filter.UpdatedAfter # 0 /\ repo.UpdatedAt < filter.UpdatedAfter
    THEN FALSE
    ELSE IF filter.MinSize > 0 /\ repo.Size < filter.MinSize
    THEN FALSE
    ELSE IF filter.MaxSize > 0 /\ repo.Size > filter.MaxSize
    THEN FALSE
    ELSE IF filter.Language # "" /\ ~EqualFold(repo.Language, filter.Language)
    THEN FALSE
    ELSE IF filter.Archived # <<>> /\ repo.Archived # filter.Archived[1]
    THEN FALSE
    ELSE IF filter.Fork # <<>> /\ repo.Fork # filter.Fork[1]
    THEN FALSE
    ELSE TRUE

\* no call of FilterRepositories; i is the position of the range loop
NoCall == [pc |-> "idle", repos |-> <<>>, filter |-> <<>>, i |-> 0,
           filtered |-> <<>>, result |-> <<>>]

\* ---------------------------------------------------------------- Init
\* NewRepositoryManager(baseDir, maxConcurrent) with NewConcurrentCloner
InitState(in) ==
    /\ inputs = in
    /\ repositories = <<>>
    /\ maxConcurrent \in in.slots
    /\ semaphore = 0
    /\ wg = 0
    /\ fs = [n \in Names |-> "absent"]
    /\ fs0 = fs
    /\ cwd = OrigDir
    /\ jobs = <<>>
    /\ launched = 0
    /\ worker = [t \in Targets |-> IdleWorker]
    /\ results = <<>>
    /\ resultsClosed = FALSE
    /\ updates = <<>>
    /\ updatesClosed = FALSE
    /\ collector = [pc |-> "idle", repo |-> 0, result |-> NoResult]
    /\ panicked = FALSE
    /\ oplog = [t \in Targets |-> <<>>]
    /\ sent = [t \in Targets |-> 0]
    /\ applied = [t \in Targets |-> 0]
    /\ ctxDone = FALSE
    /\ pass = 0
    /\ mu = [t \in Targets |-> Free]
    /\ seen = [t \in Targets |-> <<>>]
    /\ m = NewModel
    /\ client = NewClient

\* ... on a program that makes no call of FilterRepositories
InitWith(in) == InitState(in) /\ filtering = NoCall

\* A run of up to MaxTargets targets with pairwise distinct plain names (the
\* i-th registered is PlainNames[i]), each target directory a working copy;
\* the first target has any policy, the later ones SkipExisting or
\* OverwriteExisting. There is one pass, git fails by exiting with an error, and the
\* caller cancels, if at all, before the first job is started.
Init == InitWith([names |-> [i \in Targets |-> {PlainNames[i]}],
                  strategies |-> [i \in Targets |->
                      IF i = 1 THEN Strategies
                      ELSE {SkipExisting, OverwriteExisting}],
                  dirs |-> {"repo"}, maxTargets |-> MaxTargets,
                  slots |-> 0..MaxSlots, exits |-> {"exit status 128"},
                  maxPasses |-> 1, cancelAnyTime |-> FALSE])

\* A run of one target, over every name, every policy and every state of
\* its directory, with up to MaxPasses passes, every git failure and a
\* cancellation at any time.
InitOne == InitWith([names |-> [i \in Targets |-> Names],
                     strategies |-> [i \in Targets |-> Strategies],
                     dirs |-> DirStates,
                     maxTargets |-> 1, slots |-> 0..MaxSlots,
                     exits |-> ExitErrors, maxPasses |-> MaxPasses,
                     cancelAnyTime |-> TRUE])

\* A run of up to MaxTargets targets that are all registered under the same
\* name, hence with the same URL and the same target directory.
InitDup == InitWith([names |-> [i \in Targets |-> {PlainNames[1]}],
                     strategies |-> [i \in Targets |->
                         IF i = 1 THEN Strategies
                         ELSE {SkipExisting, OverwriteExisting}],
                     dirs |-> {"repo"}, maxTargets |-> MaxTargets,
                     slots |-> 1..MaxSlots, exits |-> {"exit status 128"},
                     maxPasses |-> 1, cancelAnyTime |-> FALSE])

\* A run of up to MaxPasses passes over up to MaxTargets targets with
\* distinct plain names on a cloner of one slot: targets may be registered
\* before the first pass and between passes.
InitPasses == InitWith([names |-> [i \in Targets |-> {PlainNames[i]}],
                        strategies |-> [i \in Targets |-> Strategies],
                        dirs |-> {"repo"}, maxTargets |-> MaxTargets,
                        slots |-> {1}, exits |-> {"exit status 128"},
                        maxPasses |-> MaxPasses, cancelAnyTime |-> FALSE])

\* ------------------------------------------------------- RepositoryManager
Registered(name) == \E i \in 1..Len(repositories) : repositories[i].Name = name

\* rm.AddRepository(org, name, url, branch, strategy). The state of the
\* target directory before the pass is an input too: it is drawn when the
\* first target of that name is registered.
AddRepository ==
    /\ \/ collector.pc = "idle"
       \/ collector.pc = "done" /\ pass < inputs.maxPasses
    /\ Len(repositories) < inputs.maxTargets
    /\ \E name \in inputs.names[Len(repositories) + 1],
          strategy \in inputs.strategies[Len(repositories) + 1],
          dir \in inputs.dirs :
          /\ repositories' = Append(repositories,
                 [Name |-> name, Organization |-> Organization,
                  URL |-> URLOf(name), Status |-> StatusPending,
                  Error |-> NoError, Progress |-> <<>>,
                  ExistingRepo |-> strategy])
          /\ fs' = IF Registered(name) THEN fs ELSE [fs EXCEPT ![name] = dir]
          /\ fs0' = fs'
    /\ UNCHANGED <<front, maxConcurrent, semaphore, wg, cwd, jobs, launched, worker,
                   results, resultsClosed, updates, updatesClosed, collector,
                   panicked, oplog, sent, applied, inputs,
                   ctxDone, pass, mu, seen>>

RECURSIVE PendingFrom(_)
\* the cloneOpts CloneAll builds: the Pending repositories from index i on
PendingFrom(i) ==
    IF i > Len(repositories) THEN <<>>
    ELSE IF repositories[i].Status = StatusPending
         THEN <<i>> \o PendingFrom(i + 1)
         ELSE PendingFrom(i + 1)

\* CloneAll that builds a job for every target, whatever its status
CloneAll_AllTargets ==
    /\ \/ collector.pc = "idle"
       \/ collector.pc = "done" /\ updates = <<>>
    /\ pass < inputs.maxPasses
    /\ pass' = pass + 1
    /\ jobs' = [i \in 1..Len(repositories) |-> i]
    /\ launched' = 0
    /\ results' = <<>>
    /\ resultsClosed' = FALSE
    /\ updates' = <<>>
    /\ updatesClosed' = FALSE
    /\ collector' = [pc |-> "collect", repo |-> 0, result |-> NoResult]
    /\ UNCHANGED <<front, repositories, maxConcurrent, semaphore, wg, fs, cwd, worker,
                   panicked, oplog, sent, applied, inputs, fs0, ctxDone, mu,
                   seen>>

\* rm.CloneAll(ctx), up to the call of CloneRepositories, which makes the
\* results channel and starts the launcher goroutine. Passes follow each
\* other: the caller starts the next one when it has drained the closed
\* stream of the one before.
CloneAll ==
    /\ \/ collector.pc = "idle"
       \/ collector.pc = "done" /\ updates = <<>>
    /\ pass < inputs.maxPasses
    /\ pass' = pass + 1
    /\ jobs' = PendingFrom(1)
    /\ launched' = 0
    /\ results' = <<>>
    /\ resultsClosed' = FALSE
    /\ updates' = <<>>
    /\ updatesClosed' = FALSE
    /\ collector' = [pc |-> "collect", repo |-> 0, result |-> NoResult]
    /\ UNCHANGED <<front, repositories, maxConcurrent, semaphore, wg, fs, cwd, worker,
                   panicked, oplog, sent, applied, inputs, fs0, ctxDone, mu,
                   seen>>

\* The caller cancels the context of the run (the progress view does on q or
\* ctrl+c). A git process that is running is killed; whether a worker at a
\* git invocation had started its process is open.
Cancel ==
    /\ pass >= 1
    /\ inputs.cancelAnyTime \/ launched = 0
    /\ ~ctxDone
    /\ ctxDone' = TRUE
    /\ \E running \in SUBSET {t \in Targets : worker[t].pc \in GitPcs} :
          worker' = [t \in Targets |->
              LET f == (t \in running) \/ worker[t].pc = "sleep" IN
              [worker[t] EXCEPT !.inflight = f, !.hit = f]]
    /\ UNCHANGED <<front, repositories, maxConcurrent, semaphore, wg, fs, cwd, jobs,
                   launched, results, resultsClosed, updates, updatesClosed,
                   collector, panicked, oplog, sent, applied, inputs, fs0,
                   pass, mu, seen>>

\* cap(updates) = len(rm.repositories), cap(results) = len(repos)
UpdatesCap == Len(repositories)
ResultsCap == Len(jobs)

\* -------------------------------------------------------- ConcurrentCloner
\* CloneRepositories' loop: c.wg.Add(1); go func(opts) {...}(opts)
Launch ==
    /\ collector.pc # "idle"
    /\ launched < Len(jobs)
    /\ launched' = launched + 1
    /\ wg' = wg + 1
    /\ worker' = [worker EXCEPT ![jobs[launched + 1]].pc = "acquire"]
    /\ UNCHANGED <<front, repositories, maxConcurrent, semaphore, fs, cwd, jobs,
                   results, resultsClosed, updates, updatesClosed, collector,
                   panicked, oplog, sent, applied, inputs, fs0,
                   ctxDone, pass, mu, seen>>

\* c.wg.Wait() returns; the deferred close(results) runs.
CloseResults ==
    /\ collector.pc # "idle"
    /\ launched = Len(jobs)
    /\ wg = 0
    /\ ~resultsClosed
    /\ resultsClosed' = TRUE
    /\ UNCHANGED <<front, repositories, maxConcurrent, semaphore, wg, fs, cwd, jobs,
                   launched, worker, results, updates, updatesClosed, collector,
                   panicked, oplog, sent, applied, inputs, fs0,
                   ctxDone, pass, mu, seen>>

\* Acquire with a gate one slot too wide
Acquire_OneTooMany(t) ==
    /\ worker[t].pc = "acquire"
    /\ semaphore <= maxConcurrent
    /\ semaphore' = semaphore + 1
    /\ worker' = [worker EXCEPT ![t].pc = "mkdir"]
    /\ UNCHANGED <<front, repositories, maxConcurrent, wg, fs, cwd, jobs, launched,
                   results, resultsClosed, updates, updatesClosed, collector,
                   panicked, oplog, sent, applied, inputs, fs0,
                   ctxDone, pass, mu, seen>>

\* Acquire that admits jobs in submission order: a job waits while a job
\* submitted before it waits
Acquire_InOrder(t) ==
    /\ worker[t].pc = "acquire"
    /\ \A u \in Targets : worker[u].pc = "acquire" => u >= t
    /\ semaphore < maxConcurrent
    /\ semaphore' = semaphore + 1
    /\ worker' = [worker EXCEPT ![t].pc = "mkdir"]
    /\ UNCHANGED <<front, repositories, maxConcurrent, wg, fs, cwd, jobs,
                   launched, results, resultsClosed, updates, updatesClosed,
                   collector, panicked, oplog, sent, applied, inputs, fs0,
                   ctxDone, pass, mu, seen>>

\* c.semaphore <- struct{}{}
Acquire(t) ==
    /\ worker[t].pc = "acquire"
    /\ semaphore < maxConcurrent
    /\ semaphore' = semaphore + 1
    /\ worker' = [worker EXCEPT ![t].pc = "mkdir"]
    /\ UNCHANGED <<front, repositories, maxConcurrent, wg, fs, cwd, jobs, launched,
                   results, resultsClosed, updates, updatesClosed, collector,
                   panicked, oplog, sent, applied, inputs, fs0,
                   ctxDone, pass, mu, seen>>

\* --------------------------------------------------------- CloneRepository
\* os.MkdirAll(opts.TargetDir, 0755): nil when the path is a directory
\* already, otherwise the directory is made or the call fails
MkdirAll(t) ==
    /\ worker[t].pc = "mkdir"
    /\ \/ /\ fs' = [fs EXCEPT ![DirOf(t)] = IF @ = "absent" THEN "dir" ELSE @]
          /\ worker' = [worker EXCEPT ![t].pc = "resolve"]
          /\ oplog' = Log(t, "mkdir", 0, OrigDir, TRUE)
       \/ /\ fs[DirOf(t)] = "absent"
          /\ worker' = [worker EXCEPT ![t].pc = "return",
                  ![t].err = Wrap("failed to create target directory: ",
                                  <<"mkdir: permission denied">>)]
          /\ oplog' = Log(t, "mkdir", 0, OrigDir, FALSE)
          /\ UNCHANGED fs
    /\ UNCHANGED <<front, repositories, maxConcurrent, semaphore, wg, cwd, jobs,
                   launched, results, resultsClosed, updates, updatesClosed,
                   collector, panicked, sent, applied, inputs, fs0,
                   ctxDone, pass, mu, seen>>

\* handleExistingRepo up to its first blocking point, and what
\* CloneRepository does with a return that needs no further step.
handleExistingRepo(t) ==
    /\ worker[t].pc = "resolve"
    /\ IF ~isGitRepo(t)
       THEN worker' = [worker EXCEPT ![t].pc = "clone", ![t].attempt = 0]
       ELSE CASE repositories[t].ExistingRepo = SkipExisting ->
                   \* the error returned is dropped: CloneRepository returns nil
                   worker' = [worker EXCEPT ![t] = AtCall(
                       <<"Skipping", " existing repository: ">> \o repositories[t].URL,
                       "return", [@ EXCEPT !.err = NoError])]
              [] repositories[t].ExistingRepo = OverwriteExisting ->
                   worker' = [worker EXCEPT ![t] = AtCall(
                       <<"Removing existing repository: ">> \o TargetDir(t),
                       "remove", @)]
              [] repositories[t].ExistingRepo = FetchOnly ->
                   \* fetchAndUpdate
                   worker' = [worker EXCEPT ![t] = AtCall(
                       <<"Updating", " existing repository: ">> \o repositories[t].URL,
                       "getwd", @)]
    /\ UNCHANGED <<front, repositories, maxConcurrent, semaphore, wg, fs, cwd, jobs, launched,
                   results, resultsClosed, updates, updatesClosed, collector,
                   panicked, oplog, sent, applied, inputs, fs0,
                   ctxDone, pass, mu, seen>>

\* ProgressFunc: repo.mu.Lock() (line 130)
Lock(t) ==
    /\ worker[t].pc = "lock"
    /\ mu[t] = Free
    /\ mu' = [mu EXCEPT ![t] = "worker"]
    /\ worker' = [worker EXCEPT ![t].pc = "locked"]
    /\ UNCHANGED <<front, repositories, maxConcurrent, semaphore, wg, fs, cwd, jobs,
                   launched, results, resultsClosed, updates, updatesClosed,
                   collector, panicked, oplog, sent, applied, inputs, fs0,
                   ctxDone, pass, seen>>

\* UpdateProgress without the Unlock: the callback sends while it holds repo.mu
UpdateProgress_KeepLock(t) ==
    /\ worker[t].pc = "locked"
    /\ repositories' = ProgressFunc(t, worker[t].msg)
    /\ worker' = [worker EXCEPT ![t].pc = "send"]
    /\ UNCHANGED <<front, maxConcurrent, semaphore, wg, fs, cwd, jobs, launched,
                   results, resultsClosed, updates, updatesClosed, collector,
                   panicked, oplog, sent, applied, inputs, fs0, ctxDone, pass,
                   mu, seen>>

\* ProgressFunc: the fields are updated, then repo.mu.Unlock() (lines 131-142)
UpdateProgress(t) ==
    /\ worker[t].pc = "locked"
    /\ repositories' = ProgressFunc(t, worker[t].msg)
    /\ mu' = [mu EXCEPT ![t] = Free]
    /\ worker' = [worker EXCEPT ![t].pc = "send"]
    /\ UNCHANGED <<front, maxConcurrent, semaphore, wg, fs, cwd, jobs, launched,
                   results, resultsClosed, updates, updatesClosed, collector,
                   panicked, oplog, sent, applied, inputs, fs0, ctxDone, pass,
                   seen>>

\* SendProgress that drops the event when the stream's buffer is full
SendProgress_NonBlocking(t) ==
    /\ worker[t].pc = "send"
    /\ updates' = IF Len(updates) < UpdatesCap
                  THEN Append(updates,
                           [repo |-> t, kind |-> "progress",
                            seq |-> worker[t].seq, was |-> Fields(t)])
                  ELSE updates
    /\ panicked' = (panicked \/ updatesClosed)
    /\ worker' = [worker EXCEPT ![t].pc = worker[t].next]
    /\ UNCHANGED <<front, repositories, maxConcurrent, semaphore, wg, fs, cwd, jobs,
                   launched, results, resultsClosed, updatesClosed, collector,
                   oplog, sent, applied, inputs, fs0,
                   ctxDone, pass, mu, seen>>

\* SendProgress that puts the event at the head of the stream's buffer
SendProgress_Front(t) ==
    /\ worker[t].pc = "send"
    /\ Len(updates) < UpdatesCap
    /\ updates' = <<[repo |-> t, kind |-> "progress", seq |-> worker[t].seq,
                      was |-> Fields(t)]>> \o updates
    /\ panicked' = (panicked \/ updatesClosed)
    /\ worker' = [worker EXCEPT ![t].pc = worker[t].next]
    /\ UNCHANGED <<front, repositories, maxConcurrent, semaphore, wg, fs, cwd, jobs,
                   launched, results, resultsClosed, updatesClosed, collector,
                   oplog, sent, applied, inputs, fs0,
                   ctxDone, pass, mu, seen>>

\* ProgressFunc: `updates <- repo` (line 143); the callback returns. The
\* element is the pointer to the target; kind and seq label the event, and
\* was tells what the target's fields were when it was sent.
SendProgress(t) ==
    /\ worker[t].pc = "send"
    /\ Len(updates) < UpdatesCap
    /\ updates' = Append(updates,
           [repo |-> t, kind |-> "progress", seq |-> worker[t].seq,
            was |-> Fields(t)])
    /\ panicked' = (panicked \/ updatesClosed)
    /\ worker' = [worker EXCEPT ![t].pc = worker[t].next]
    /\ UNCHANGED <<front, repositories, maxConcurrent, semaphore, wg, fs, cwd, jobs,
                   launched, results, resultsClosed, updatesClosed, collector,
                   oplog, sent, applied, inputs, fs0,
                   ctxDone, pass, mu, seen>>

\* RemoveAll whose failure is ignored: the executor goes on to clone
RemoveAll_IgnoreFailure(t) ==
    /\ worker[t].pc = "remove"
    /\ \/ /\ fs' = [fs EXCEPT ![DirOf(t)] = "absent"]
          /\ worker' = [worker EXCEPT ![t].pc = "clone", ![t].attempt = 0]
          /\ oplog' = Log(t, "remove", 0, OrigDir, TRUE)
       \/ /\ oplog' = Log(t, "remove", 0, OrigDir, FALSE)
          /\ worker' = [worker EXCEPT ![t].pc = "clone", ![t].attempt = 0]
          /\ UNCHANGED fs
    /\ UNCHANGED <<front, repositories, maxConcurrent, semaphore, wg, cwd, jobs,
                   launched, results, resultsClosed, updates, updatesClosed,
                   collector, panicked, sent, applied, inputs, fs0,
                   ctxDone, pass, mu, seen>>

\* os.RemoveAll(opts.TargetDir) under OverwriteExisting
RemoveAll(t) ==
    /\ worker[t].pc = "remove"
    /\ \/ /\ fs' = [fs EXCEPT ![DirOf(t)] = "absent"]
          /\ worker' = [worker EXCEPT ![t].pc = "clone", ![t].attempt = 0]
          /\ oplog' = Log(t, "remove", 0, OrigDir, TRUE)
       \/ /\ oplog' = Log(t, "remove", 0, OrigDir, FALSE)
          /\ worker' = [worker EXCEPT ![t].pc = "return",
                  ![t].err = Wrap("failed to remove existing repository: ",
                                  <<"unlinkat: permission denied">>)]
          /\ UNCHANGED fs
    /\ UNCHANGED <<front, repositories, maxConcurrent, semaphore, wg, cwd, jobs,
                   launched, results, resultsClosed, updates, updatesClosed,
                   collector, panicked, sent, applied, inputs, fs0,
                   ctxDone, pass, mu, seen>>

\* fetchAndUpdate: os.Getwd()
Getwd(t) ==
    /\ worker[t].pc = "getwd"
    /\ \/ worker' = [worker EXCEPT ![t].pc = "chdir", ![t].currentDir = cwd]
       \/ worker' = [worker EXCEPT ![t].pc = "return",
                  ![t].err = Wrap("failed to get current directory: ",
                                  <<"getwd: no such file or directory">>)]
    /\ UNCHANGED <<front, repositories, maxConcurrent, semaphore, wg, fs, cwd, jobs,
                   launched, results, resultsClosed, updates, updatesClosed,
                   collector, panicked, oplog, sent, applied, inputs, fs0,
                   ctxDone, pass, mu, seen>>

\* fetchAndUpdate: os.Chdir(opts.TargetDir); defer os.Chdir(currentDir)
Chdir(t) ==
    /\ worker[t].pc = "chdir"
    /\ \/ /\ cwd' = DirOf(t)
          /\ worker' = [worker EXCEPT ![t].pc = "fetch"]
       \/ /\ worker' = [worker EXCEPT ![t].pc = "return",
                  ![t].err = Wrap("failed to change to repository directory: ",
                                  <<"chdir: no such file or directory">>)]
          /\ UNCHANGED cwd
    /\ UNCHANGED <<front, repositories, maxConcurrent, semaphore, wg, fs, jobs,
                   launched, results, resultsClosed, updates, updatesClosed,
                   collector, panicked, oplog, sent, applied, inputs, fs0,
                   ctxDone, pass, mu, seen>>

\* fetchAndUpdate: git fetch --all --prune, in the process working directory
GitFetch(t) ==
    /\ worker[t].pc = "fetch"
    /\ \/ /\ ~ctxDone
          /\ worker' = [worker EXCEPT ![t] = GitEnded([@ EXCEPT !.pc = "reset"])]
          /\ oplog' = Log(t, "fetch", 0, cwd, TRUE)
       \/ /\ \E e \in GitFailures(t) : \E out \in OutputsOf(e) :
                worker' = [worker EXCEPT ![t] = GitEnded([@ EXCEPT
                     !.pc = "chdirback",
                     !.err = <<"failed to fetch updates: ", e,
                                "\nOutput: ">> \o out])]
          /\ oplog' = Log(t, "fetch", 0, cwd, FALSE)
    /\ UNCHANGED <<front, repositories, maxConcurrent, semaphore, wg, fs, cwd, jobs,
                   launched, results, resultsClosed, updates, updatesClosed,
                   collector, panicked, sent, applied, inputs, fs0,
                   ctxDone, pass, mu, seen>>

\* fetchAndUpdate: git reset --hard origin/<branch>, then the final
\* ProgressFunc on success
GitReset(t) ==
    /\ worker[t].pc = "reset"
    /\ \/ /\ ~ctxDone
          /\ oplog' = Log(t, "reset", 0, cwd, TRUE)
          /\ worker' = [worker EXCEPT ![t] = AtCall(
                  <<"Successfully updated repository: ">> \o repositories[t].URL,
                  "chdirback", GitEnded([@ EXCEPT !.err = NoError]))]
       \/ /\ \E e \in GitFailures(t) : \E out \in OutputsOf(e) :
                worker' = [worker EXCEPT ![t] = GitEnded([@ EXCEPT
                     !.pc = "chdirback",
                     !.err = <<"failed to reset branch: ", e,
                                "\nOutput: ">> \o out])]
          /\ oplog' = Log(t, "reset", 0, cwd, FALSE)
    /\ UNCHANGED <<front, repositories, maxConcurrent, semaphore, wg, fs, cwd, jobs, launched,
                   results, resultsClosed, updates, updatesClosed, collector,
                   panicked, sent, applied, inputs, fs0,
                   ctxDone, pass, mu, seen>>

\* fetchAndUpdate returns: the deferred os.Chdir(currentDir) runs, then
\* CloneRepository tests handleExistingRepo's error (lines 170-175): a nil
\* error falls through to the clone loop.
fetchAndUpdateReturn(t) ==
    /\ worker[t].pc = "chdirback"
    /\ cwd' = worker[t].currentDir
    /\ worker' = [worker EXCEPT
           ![t].pc = IF worker[t].err = NoError THEN "clone" ELSE "return",
           ![t].attempt = 0]
    /\ UNCHANGED <<front, repositories, maxConcurrent, semaphore, wg, fs, jobs,
                   launched, results, resultsClosed, updates, updatesClosed,
                   collector, panicked, oplog, sent, applied, inputs, fs0,
                   ctxDone, pass, mu, seen>>

\* git clone fails on a target directory that already holds a working copy;
\* otherwise either outcome is possible.
CloneCanSucceed(t) == fs[DirOf(t)] # "repo"

\* One pass of the retry loop's body from the git invocation on (lines
\* 188-212): git clone, then ProgressFunc with the outcome.
GitClone(t) ==
    /\ worker[t].pc = "clone"
    /\ \/ /\ ~ctxDone
          /\ CloneCanSucceed(t)
          /\ oplog' = Log(t, "clone", worker[t].attempt, OrigDir, TRUE)
          /\ fs' = [fs EXCEPT ![DirOf(t)] = "repo"]
          /\ worker' = [worker EXCEPT ![t] = AtCall(
                  <<"Successfully cloned ">> \o repositories[t].URL,
                  "return", GitEnded([@ EXCEPT !.err = NoError]))]
       \/ /\ \E e \in GitFailures(t) : \E out \in OutputsOf(e) :
                LET lastErr == <<"clone failed: ", e, "\nOutput: ">> \o out IN
                worker' = [worker EXCEPT ![t] = AtCall(
                    <<"Clone attempt ", ToString(worker[t].attempt + 1),
                      " failed: ">> \o lastErr,
                    "loop", GitEnded([@ EXCEPT !.lastErr = lastErr]))]
          /\ oplog' = Log(t, "clone", worker[t].attempt, OrigDir, FALSE)
          /\ UNCHANGED fs
    /\ UNCHANGED <<front, repositories, maxConcurrent, semaphore, wg, cwd, jobs, launched, results,
                   resultsClosed, updates, updatesClosed, collector, panicked,
                   sent, applied, inputs, fs0,
                   ctxDone, pass, mu, seen>>

\* RetryOrGiveUp with the loop test off by one: attempt <= MaxRetries + 1
RetryOrGiveUp_OneMore(t) ==
    /\ worker[t].pc = "loop"
    /\ LET attempt == worker[t].attempt + 1 IN
       IF attempt <= MaxRetries + 1
       THEN worker' = [worker EXCEPT ![t] = AtCall(
                <<"Retrying in ">> \o FormatDuration(Backoff(attempt)) \o
                <<"... (attempt ", ToString(attempt + 1), "/",
                  ToString(MaxRetries), ")">>,
                "sleep", [@ EXCEPT !.attempt = attempt])]
       ELSE worker' = [worker EXCEPT ![t].pc = "return",
                ![t].attempt = attempt,
                ![t].err = <<"failed to clone after ", ToString(MaxRetries),
                             " attempts: ">> \o worker[t].lastErr]
    /\ UNCHANGED <<front, repositories, maxConcurrent, semaphore, wg, fs, cwd, jobs, launched,
                   results, resultsClosed, updates, updatesClosed, collector,
                   panicked, oplog, sent, applied, inputs, fs0,
                   ctxDone, pass, mu, seen>>

\* The loop's header after a failed attempt (line 178): attempt++, the test
\* attempt <= opts.MaxRetries, and the retry message (lines 179-184), or the
\* return after the loop (line 215).
RetryOrGiveUp(t) ==
    /\ worker[t].pc = "loop"
    /\ LET attempt == worker[t].attempt + 1 IN
       IF attempt <= MaxRetries
       THEN worker' = [worker EXCEPT ![t] = AtCall(
                <<"Retrying in ">> \o FormatDuration(Backoff(attempt)) \o
                <<"... (attempt ", ToString(attempt + 1), "/",
                  ToString(MaxRetries), ")">>,
                "sleep", [@ EXCEPT !.attempt = attempt])]
       ELSE worker' = [worker EXCEPT ![t].pc = "return",
                ![t].attempt = attempt,
                ![t].err = <<"failed to clone after ", ToString(MaxRetries),
                             " attempts: ">> \o worker[t].lastErr]
    /\ UNCHANGED <<front, repositories, maxConcurrent, semaphore, wg, fs, cwd, jobs, launched,
                   results, resultsClosed, updates, updatesClosed, collector,
                   panicked, oplog, sent, applied, inputs, fs0,
                   ctxDone, pass, mu, seen>>

\* time.Sleep(backoff)
Sleep(t) ==
    /\ worker[t].pc = "sleep"
    /\ oplog' = Log(t, "sleep", Backoff(worker[t].attempt), OrigDir, TRUE)
    /\ worker' = [worker EXCEPT ![t].pc = "clone", ![t].inflight = FALSE]
    /\ UNCHANGED <<front, repositories, maxConcurrent, semaphore, wg, fs, cwd, jobs,
                   launched, results, resultsClosed, updates, updatesClosed,
                   collector, panicked, sent, applied, inputs, fs0,
                   ctxDone, pass, mu, seen>>

\* CloneRepository has returned: results <- CloneResult{...}
SendResult(t) ==
    /\ worker[t].pc = "return"
    /\ Len(results) < ResultsCap
    /\ results' = Append(results,
           [RepoURL |-> repositories[t].URL,
            Success |-> (worker[t].err = NoError),
            Error |-> worker[t].err])
    /\ panicked' = (panicked \/ resultsClosed)
    /\ sent' = [sent EXCEPT ![t] = @ + 1]
    /\ worker' = [worker EXCEPT ![t].pc = "release"]
    /\ UNCHANGED <<front, repositories, maxConcurrent, semaphore, wg, fs, cwd, jobs,
                   launched, resultsClosed, updates, updatesClosed, collector,
                   oplog, applied, inputs, fs0,
                   ctxDone, pass, mu, seen>>

\* Release that gives the slot back only when the executor succeeded
Release_OnSuccessOnly(t) ==
    /\ worker[t].pc = "release"
    /\ semaphore' = IF worker[t].err = NoError THEN semaphore - 1 ELSE semaphore
    /\ wg' = wg - 1
    /\ worker' = [worker EXCEPT ![t].pc = "done"]
    /\ UNCHANGED <<front, repositories, maxConcurrent, fs, cwd, jobs, launched,
                   results, resultsClosed, updates, updatesClosed, collector,
                   panicked, oplog, sent, applied, inputs, fs0,
                   ctxDone, pass, mu, seen>>

\* The worker's deferred calls: <-c.semaphore, then c.wg.Done()
Release(t) ==
    /\ worker[t].pc = "release"
    /\ semaphore' = semaphore - 1
    /\ wg' = wg - 1
    /\ worker' = [worker EXCEPT ![t].pc = "done"]
    /\ UNCHANGED <<front, repositories, maxConcurrent, fs, cwd, jobs, launched,
                   results, resultsClosed, updates, updatesClosed, collector,
                   panicked, oplog, sent, applied, inputs, fs0,
                   ctxDone, pass, mu, seen>>

\* ------------------------------------------------- CloneAll's result loop
\* FindRepository in which the last match wins
FindRepository_Last(url) ==
    LET hits == {i \in 1..Len(repositories) : repositories[i].URL = url} IN
    IF hits = {} THEN 0
    ELSE CHOOSE i \in hits : \A j \in hits : i >= j

\* the first repository whose URL is the result's, 0 when there is none
FindRepository(url) ==
    LET hits == {i \in 1..Len(repositories) : repositories[i].URL = url} IN
    IF hits = {} THEN 0
    ELSE CHOOSE i \in hits : \A j \in hits : i <= j

\* ApplyResult that records a failure's error but leaves the status alone
ApplyResult_KeepStatusOnFailure(repo, result) ==
    IF result.Success
    THEN IF repo.Status # StatusSkipped
         THEN [repo EXCEPT !.Status = StatusSuccess]
         ELSE repo
    ELSE [repo EXCEPT !.Error = result.Error]

\* ApplyResult in which a success overwrites the status Skipped too
ApplyResult_OverwriteSkipped(repo, result) ==
    IF result.Success
    THEN [repo EXCEPT !.Status = StatusSuccess]
    ELSE [repo EXCEPT !.Status = StatusFailed, !.Error = result.Error]

\* the status update under repo.mu (lines 165-176)
ApplyResult(repo, result) ==
    IF result.Success
    THEN IF repo.Status # StatusSkipped
         THEN [repo EXCEPT !.Status = StatusSuccess]
         ELSE repo
    ELSE [repo EXCEPT !.Status = StatusFailed, !.Error = result.Error]

\* `for result := range results`: one result received and its repository
\* looked up (lines 150-162)
Collect ==
    /\ collector.pc = "collect"
    /\ results # <<>>
    /\ results' = Tail(results)
    /\ LET result == Head(results)
           i == FindRepository(result.RepoURL) IN
       IF i = 0
       THEN UNCHANGED collector
       ELSE collector' = [pc |-> "lock", repo |-> i, result |-> result]
    /\ UNCHANGED <<front, repositories, maxConcurrent, semaphore, wg, fs, cwd, jobs,
                   launched, worker, resultsClosed, updates, updatesClosed,
                   panicked, oplog, sent, applied, inputs, fs0, ctxDone, pass,
                   mu, seen>>

\* the result loop's repo.mu.Lock() (line 165)
LockRepository ==
    /\ collector.pc = "lock"
    /\ mu[collector.repo] = Free
    /\ mu' = [mu EXCEPT ![collector.repo] = "collector"]
    /\ collector' = [collector EXCEPT !.pc = "locked"]
    /\ UNCHANGED <<front, repositories, maxConcurrent, semaphore, wg, fs, cwd, jobs,
                   launched, worker, results, resultsClosed, updates,
                   updatesClosed, panicked, oplog, sent, applied, inputs, fs0,
                   ctxDone, pass, seen>>

\* UpdateOutcome in which one target's failure fails every target
UpdateOutcome_FailAll ==
    /\ collector.pc = "locked"
    /\ repositories' =
           IF collector.result.Success
           THEN [repositories EXCEPT
                    ![collector.repo] = ApplyResult(@, collector.result)]
           ELSE [i \in 1..Len(repositories) |->
                    ApplyResult(repositories[i], collector.result)]
    /\ applied' = [applied EXCEPT ![collector.repo] = @ + 1]
    /\ mu' = [mu EXCEPT ![collector.repo] = Free]
    /\ collector' = [collector EXCEPT !.pc = "send"]
    /\ UNCHANGED <<front, maxConcurrent, semaphore, wg, fs, cwd, jobs, launched,
                   worker, results, resultsClosed, updates, updatesClosed,
                   panicked, oplog, sent, inputs, fs0, ctxDone, pass, seen>>

\* the result loop's status update, then repo.mu.Unlock() (lines 166-176)
UpdateOutcome ==
    /\ collector.pc = "locked"
    /\ repositories' = [repositories EXCEPT
           ![collector.repo] = ApplyResult(@, collector.result)]
    /\ applied' = [applied EXCEPT ![collector.repo] = @ + 1]
    /\ mu' = [mu EXCEPT ![collector.repo] = Free]
    /\ collector' = [collector EXCEPT !.pc = "send"]
    /\ UNCHANGED <<front, maxConcurrent, semaphore, wg, fs, cwd, jobs, launched,
                   worker, results, resultsClosed, updates, updatesClosed,
                   panicked, oplog, sent, inputs, fs0, ctxDone, pass, seen>>

\* `updates <- repo` of the result loop
SendOutcome ==
    /\ collector.pc = "send"
    /\ Len(updates) < UpdatesCap
    /\ updates' = Append(updates,
           [repo |-> collector.repo, kind |-> "outcome", seq |-> 0,
            was |-> Fields(collector.repo)])
    /\ panicked' = (panicked \/ updatesClosed)
    /\ collector' = [pc |-> "collect", repo |-> 0, result |-> NoResult]
    /\ UNCHANGED <<front, repositories, maxConcurrent, semaphore, wg, fs, cwd, jobs,
                   launched, worker, results, resultsClosed, updatesClosed,
                   oplog, sent, applied, inputs, fs0,
                   ctxDone, pass, mu, seen>>

\* CloseUpdates that does not wait for the results channel to be closed
CloseUpdates_Early ==
    /\ collector.pc = "collect"
    /\ results = <<>>
    /\ updatesClosed' = TRUE
    /\ collector' = [pc |-> "done", repo |-> 0, result |-> NoResult]
    /\ UNCHANGED <<front, repositories, maxConcurrent, semaphore, wg, fs, cwd, jobs,
                   launched, worker, results, resultsClosed, updates, panicked,
                   oplog, sent, applied, inputs, fs0,
                   ctxDone, pass, mu, seen>>

\* The range loop ends on the closed, drained results channel; the deferred
\* close(updates) runs.
CloseUpdates ==
    /\ collector.pc = "collect"
    /\ results = <<>>
    /\ resultsClosed
    /\ updatesClosed' = TRUE
    /\ collector' = [pc |-> "done", repo |-> 0, result |-> NoResult]
    /\ UNCHANGED <<front, repositories, maxConcurrent, semaphore, wg, fs, cwd, jobs,
                   launched, worker, results, resultsClosed, updates, panicked,
                   oplog, sent, applied, inputs, fs0,
                   ctxDone, pass, mu, seen>>

\* The consumer of the stream receives one element.
Receive ==
    /\ updates # <<>>
    /\ updates' = Tail(updates)
    /\ seen' = [seen EXCEPT ![Head(updates).repo] =
                    Append(@, [kind |-> Head(updates).kind,
                               seq |-> Head(updates).seq])]
    /\ UNCHANGED <<front, repositories, maxConcurrent, semaphore, wg, fs, cwd, jobs,
                   launched, worker, results, resultsClosed, updatesClosed,
                   collector, panicked, oplog, sent, applied, inputs, fs0,
                   ctxDone, pass, mu>>

\* ---------------------------------------------------------- github Client
\* The listing call runs until the program quits.
\* what the listing call has done: WaitForRateLimit has returned nil, and
\* the request for one API page was issued
WaitOp == [op |-> "wait", page |-> 0]
RequestOp(page) == [op |-> "request", page |-> page]

\* WaitForRateLimit up to its select: GetRateLimit, which fails or answers
\* with the remaining quota and the reset time, then the tests of lines
\* 231-238; time.After(waitDuration) fires at the reset time
WaitForRateLimit ==
    /\ ~m.quit
    /\ client.pc = "WaitForRateLimit"
    /\ \/ client' = [client EXCEPT !.pc = "return",
              !.err = Wrap("failed to get rate limits: ",
                  IF client.ctxDone THEN <<Canceled>>
                  ELSE <<"connection refused">>)]
       \/ /\ ~client.ctxDone
          /\ \E remaining \in 0..MaxQuota, reset \in 0..MaxClock :
                LET info == [Remaining |-> remaining, Reset |-> reset]
                    waitDuration == info.Reset - client.now IN
                client' =
                    IF info.Remaining > 0 \/ waitDuration <= 0
                    THEN [client EXCEPT !.info = info, !.pc = "ListByOrg",
                                        !.log = Append(@, WaitOp)]
                    ELSE [client EXCEPT !.info = info, !.pc = "select",
                                        !.deadline = info.Reset]
    /\ UNCHANGED <<engine, m, filtering>>

\* the select of WaitForRateLimit (lines 242-247)
WaitSelect ==
    /\ ~m.quit
    /\ client.pc = "select"
    /\ \/ /\ client.ctxDone
          /\ client' = [client EXCEPT !.pc = "return", !.err = <<Canceled>>]
       \/ /\ client.now >= client.deadline
          /\ client' = [client EXCEPT !.pc = "ListByOrg",
                                      !.log = Append(@, WaitOp)]
    /\ UNCHANGED <<engine, m, filtering>>

\* One pass of ListOrganizationRepos' loop: the request for one API page,
\* which fails or answers; resp.NextPage tells whether a page follows.
ListByOrg ==
    /\ ~m.quit
    /\ client.pc = "ListByOrg"
    /\ \/ client' = [client EXCEPT !.pc = "return",
              !.log = Append(@, RequestOp(client.page)),
              !.err = Wrap("failed to list repositories for organization: ",
                  IF client.ctxDone THEN <<Canceled>>
                  ELSE <<"403 API rate limit exceeded">>)]
       \/ /\ ~client.ctxDone
          /\ client' =
                IF client.page < client.pages
                THEN [client EXCEPT !.page = @ + 1,
                                    !.log = Append(@, RequestOp(client.page))]
                ELSE [client EXCEPT !.pc = "return", !.err = NoError,
                                    !.log = Append(@, RequestOp(client.page))]
    /\ UNCHANGED <<engine, m, filtering>>

\* the clock advances while the listing call runs
Tick ==
    /\ ~m.quit
    /\ client.pc \notin {"idle", "done"}
    /\ client.now < MaxClock
    /\ client' = [client EXCEPT !.now = @ + 1]
    /\ UNCHANGED <<engine, m, filtering>>

\* the context given to NewModel is cancelled while the listing call runs
CancelListing ==
    /\ ~m.quit
    /\ client.pc \notin {"idle", "done"}
    /\ ~client.ctxDone
    /\ client' = [client EXCEPT !.ctxDone = TRUE]
    /\ UNCHANGED <<engine, m, filtering>>

\* the repositories ListFilteredRepositories returns: the zero filter of
\* NewModel lets every listed repository through
ListedRepositories == [i \in 1..client.count |-> FullName(i)]

\* --------------------------------------------------------------- tui Model
\* Model.Update on ctrl+c or q, in every view: tea.Quit; quitKey records the
\* key that was pressed
Quit ==
    /\ ~m.quit
    /\ m.keys < MaxKeys
    /\ \E key \in QuitKeys :
          m' = [m EXCEPT !.quit = TRUE, !.quitKey = key, !.cmd = "tea.Quit",
                         !.keys = @ + 1]
    /\ UNCHANGED <<engine, client, filtering>>

\* updateOrganizationView on a key; the command fetchRepositories it
\* returns on Enter starts the listing call, on an organization that takes
\* some number of API pages to list some number of repositories
updateOrganizationView ==
    /\ ~m.quit
    /\ m.keys < MaxKeys
    /\ m.currentView = ViewOrganization
    /\ \E key \in OrganizationKeys :
          LET input == m.organization.input IN
          CASE key = "enter" /\ TrimSpace(input) # <<>> ->
                  /\ m' = [m EXCEPT !.organization.name = TrimSpace(input),
                                    !.currentView = ViewRepositories,
                                    !.cmd = "fetchRepositories",
                                    !.keys = @ + 1]
                  /\ \E pages \in 1..MaxPages, count \in RepoCounts :
                        client' = [client EXCEPT !.pc = "WaitForRateLimit",
                                                 !.page = 1,
                                                 !.pages = pages,
                                                 !.count = count]
            [] key = "enter" /\ TrimSpace(input) = <<>> ->
                  /\ m' = [m EXCEPT !.cmd = "nil", !.keys = @ + 1]
                  /\ UNCHANGED client
            [] key = "backspace" ->
                  /\ m' = [m EXCEPT
                        !.organization.input =
                            IF Len(input) > 0
                            THEN SubSeq(input, 1, Len(input) - 1) ELSE input,
                        !.cmd = "nil", !.keys = @ + 1]
                  /\ UNCHANGED client
            [] OTHER ->
                  /\ m' = [m EXCEPT !.organization.input = Append(input, key),
                                    !.cmd = "nil", !.keys = @ + 1]
                  /\ UNCHANGED client
    /\ UNCHANGED <<engine, filtering>>

\* RepositoriesKey that keeps the cursor where it is on the next page
RepositoriesKey_KeepCursor(mm, key) ==
    LET r == mm.repositories
        repos == GetPageRepos(r) IN
    CASE key = "up" ->
            [mm EXCEPT !.repositories.cursor = IF @ > 0 THEN @ - 1 ELSE @,
                       !.cmd = "nil"]
      [] key = "down" ->
            [mm EXCEPT !.repositories.cursor =
                           IF @ < Len(repos) - 1 THEN @ + 1 ELSE @,
                       !.cmd = "nil"]
      [] key = "left" ->
            IF r.page > 0
            THEN [mm EXCEPT !.repositories.page = @ - 1,
                            !.repositories.cursor = 0, !.cmd = "nil"]
            ELSE [mm EXCEPT !.cmd = "nil"]
      [] key = "right" ->
            IF r.page < r.totalPages - 1
            THEN [mm EXCEPT !.repositories.page = @ + 1, !.cmd = "nil"]
            ELSE [mm EXCEPT !.cmd = "nil"]
      [] key = " " ->
            IF Len(repos) > r.cursor
            THEN LET fullName == repos[r.cursor + 1] IN
                 [mm EXCEPT !.repositories.selectedRepos =
                                MapSet(@, fullName, ~MapGet(@, fullName)),
                            !.cmd = "nil"]
            ELSE [mm EXCEPT !.cmd = "nil"]
      [] key = "f" ->
            [mm EXCEPT !.repositories.filterVisible = ~@, !.cmd = "nil"]
      [] key = "enter" ->
            IF Cardinality(DOMAIN r.selectedRepos) > 0
            THEN [mm EXCEPT !.currentView = ViewProgress,
                            !.cmd = "startCloning"]
            ELSE [mm EXCEPT !.cmd = "nil"]
      [] OTHER -> [mm EXCEPT !.cmd = "nil"]

\* updateRepositoriesView, case tea.KeyMsg (k, j, h and l are up, down, left
\* and right)
RepositoriesKey(mm, key) ==
    LET r == mm.repositories
        repos == GetPageRepos(r) IN
    CASE key = "up" ->
            [mm EXCEPT !.repositories.cursor = IF @ > 0 THEN @ - 1 ELSE @,
                       !.cmd = "nil"]
      [] key = "down" ->
            [mm EXCEPT !.repositories.cursor =
                           IF @ < Len(repos) - 1 THEN @ + 1 ELSE @,
                       !.cmd = "nil"]
      [] key = "left" ->
            IF r.page > 0
            THEN [mm EXCEPT !.repositories.page = @ - 1,
                            !.repositories.cursor = 0, !.cmd = "nil"]
            ELSE [mm EXCEPT !.cmd = "nil"]
      [] key = "right" ->
            IF r.page < r.totalPages - 1
            THEN [mm EXCEPT !.repositories.page = @ + 1,
                            !.repositories.cursor = 0, !.cmd = "nil"]
            ELSE [mm EXCEPT !.cmd = "nil"]
      [] key = " " ->
            IF Len(repos) > r.cursor
            THEN LET fullName == repos[r.cursor + 1] IN
                 [mm EXCEPT !.repositories.selectedRepos =
                                MapSet(@, fullName, ~MapGet(@, fullName)),
                            !.cmd = "nil"]
            ELSE [mm EXCEPT !.cmd = "nil"]
      [] key = "f" ->
            [mm EXCEPT !.repositories.filterVisible = ~@, !.cmd = "nil"]
      [] key = "enter" ->
            IF Cardinality(DOMAIN r.selectedRepos) > 0
            THEN [mm EXCEPT !.currentView = ViewProgress,
                            !.cmd = "startCloning"]
            ELSE [mm EXCEPT !.cmd = "nil"]
      [] OTHER -> [mm EXCEPT !.cmd = "nil"]

\* updateRepositoriesView: on the message fetchRepositories returned
\* (reposMsg, errMsg), or on a key
updateRepositoriesView ==
    /\ ~m.quit
    /\ m.currentView = ViewRepositories
    /\ \/ /\ client.pc = "return"
          /\ m' = IF client.err = NoError
                  THEN [m EXCEPT !.repositories =
                                     SetRepositories(@, ListedRepositories),
                                 !.cmd = "nil"]
                  ELSE [m EXCEPT !.repositories.error = client.err,
                                 !.cmd = "nil"]
          /\ client' = [client EXCEPT !.pc = "done"]
       \/ /\ m.keys < MaxKeys
          /\ \E key \in RepositoriesKeys :
                m' = [RepositoriesKey(m, key) EXCEPT !.keys = @ + 1]
          /\ UNCHANGED client
    /\ UNCHANGED <<engine, filtering>>

\* updateProgressView on a key other than q: no message of the progress
\* view is ever sent, startCloning being a stub that returns nil
updateProgressView ==
    /\ ~m.quit
    /\ m.keys < MaxKeys
    /\ m.currentView = ViewProgress
    /\ \E key \in ProgressKeys : m' = [m EXCEPT !.cmd = "nil", !.keys = @ + 1]
    /\ UNCHANGED <<engine, client, filtering>>

\* Model.Update
Update ==
    \/ Quit
    \/ updateOrganizationView
    \/ updateRepositoriesView
    \/ updateProgressView

\* Client.ListOrganizationRepos
ListOrganizationRepos == WaitForRateLimit \/ WaitSelect \/ ListByOrg

\* ------------------------------------------------------ FilterRepositories
\* FilterRepositories(repos, filter) up to its loop (lines 26-30)
FilterRepositories ==
    /\ filtering.pc = "call"
    /\ filtering' =
          IF filtering.filter = <<>>
          THEN [filtering EXCEPT !.pc = "done", !.result = filtering.repos]
          ELSE [filtering EXCEPT !.pc = "loop", !.i = 1, !.filtered = <<>>]
    /\ UNCHANGED <<engine, m, client>>

\* one pass of the range loop (lines 31-36)
FilterLoop ==
    /\ filtering.pc = "loop"
    /\ filtering.i <= Len(filtering.repos)
    /\ LET repo == filtering.repos[filtering.i] IN
       filtering' =
          IF ~matchesFilter(repo, filtering.filter[1])
          THEN [filtering EXCEPT !.i = @ + 1]
          ELSE [filtering EXCEPT !.i = @ + 1,
                                 !.filtered = Append(@, repo)]
    /\ UNCHANGED <<engine, m, client>>

\* the loop has ended: return filtered (line 38)
FilterReturn ==
    /\ filtering.pc = "loop"
    /\ filtering.i > Len(filtering.repos)
    /\ filtering' = [filtering EXCEPT !.pc = "done",
                                      !.result = filtering.filtered]
    /\ UNCHANGED <<engine, m, client>>

\* ------------------------------------------------------------ specification
Worker(t) ==
    \/ Acquire(t)
    \/ MkdirAll(t)
    \/ handleExistingRepo(t)
    \/ Lock(t)
    \/ UpdateProgress(t)
    \/ SendProgress(t)
    \/ RemoveAll(t)
    \/ Getwd(t)
    \/ Chdir(t)
    \/ GitFetch(t)
    \/ GitReset(t)
    \/ fetchAndUpdateReturn(t)
    \/ GitClone(t)
    \/ RetryOrGiveUp(t)
    \/ Sleep(t)
    \/ SendResult(t)
    \/ Release(t)

Launcher == Launch \/ CloseResults

Collector ==
    \/ Collect
    \/ LockRepository
    \/ UpdateOutcome
    \/ SendOutcome
    \/ CloseUpdates

Next ==
    \/ AddRepository
    \/ CloneAll
    \/ Cancel
    \/ Launcher
    \/ Collector
    \/ Receive
    \/ \E t \in Targets : Worker(t)

Spec == Init /\ [][Next]_vars

SpecOne == InitOne /\ [][Next]_vars

\* Every goroutine that can run keeps running, every git invocation ends and
\* the consumer keeps receiving.
Fairness ==
    /\ WF_vars(Launcher)
    /\ WF_vars(Collector)
    /\ WF_vars(Receive)
    /\ \A t \in Targets : WF_vars(Worker(t))

SpecDup == InitDup /\ [][Next]_vars

SpecPasses == InitPasses /\ [][Next]_vars

FairSpec == Spec /\ Fairness

FairSpecOne == SpecOne /\ Fairness

FairSpecPasses == SpecPasses /\ Fairness

\* A run of up to MaxTargets targets with distinct plain names and working
\* copies in place on a cloner of MaxSlots slots, the last of them FetchOnly
\* and the first OverwriteExisting or FetchOnly.
InitFetch == InitWith([names |-> [i \in Targets |-> {PlainNames[i]}],
                       strategies |-> [i \in Targets |->
                           IF i = MaxTargets THEN {FetchOnly}
                           ELSE {OverwriteExisting, FetchOnly}],
                       dirs |-> {"repo"}, maxTargets |-> MaxTargets,
                       slots |-> {MaxSlots}, exits |-> {"exit status 128"},
                       maxPasses |-> 1, cancelAnyTime |-> FALSE])

SpecFetch == InitFetch /\ [][Next]_vars

\* One call of FilterRepositories, on any list of up to MaxList sample
\* repositories and any filter, nil included.
InitFilter ==
    /\ InitState([names |-> [i \in Targets |-> {PlainNames[i]}],
                  strategies |-> [i \in Targets |-> Strategies],
                  dirs |-> {"repo"}, maxTargets |-> 0,
                  slots |-> {1}, exits |-> {"exit status 128"},
                  maxPasses |-> 0, cancelAnyTime |-> FALSE])
    /\ filtering \in {[NoCall EXCEPT !.pc = "call", !.repos = l, !.filter = f] :
                          l \in RepoLists, f \in FilterPointers}

NextFilter == FilterRepositories \/ FilterLoop \/ FilterReturn

SpecFilter == InitFilter /\ [][NextFilter]_vars

\* The front end alone: the organization input, the listing call and the
\* selection view, on a manager that is never used.
InitFront == InitWith([names |-> [i \in Targets |-> {PlainNames[i]}],
                       strategies |-> [i \in Targets |-> Strategies],
                       dirs |-> {"repo"}, maxTargets |-> 0,
                       slots |-> {1}, exits |-> {"exit status 128"},
                       maxPasses |-> 0, cancelAnyTime |-> FALSE])

NextFront == Update \/ ListOrganizationRepos \/ Tick \/ CancelListing

SpecFront == InitFront /\ [][NextFront]_vars

\* ------------------------------------------------------------------ claims
\* the jobs that hold an admission slot: acquired and not yet released
Running == {t \in Targets : worker[t].pc \notin {"idle", "acquire", "done"}}

Terminal == {StatusSuccess, StatusFailed, StatusSkipped}

Registry == 1..Len(repositories)

JobSet == {jobs[k] : k \in 1..Len(jobs)}

\* C1: on a cloner built with maxConcurrent = N >= 1, at most N jobs hold an
\* admission slot (are inside CloneRepository) in any reachable state.
C1_AtMostNRunning ==
    maxConcurrent >= 1 =>
        /\ Cardinality(Running) <= maxConcurrent
        /\ semaphore = Cardinality(Running)

\* C1 witness: every slot is taken and another job waits for one.
C1_Witness ==
    /\ maxConcurrent >= 1
    /\ Cardinality(Running) = maxConcurrent
    /\ \E t \in Targets : worker[t].pc = "acquire"

DistinctURLs ==
    \A i, j \in Registry : i # j => repositories[i].URL # repositories[j].URL

\* every registered target is terminal and has had exactly one outcome applied
AllOutcomesApplied ==
    \A t \in Registry :
        repositories[t].Status \in Terminal /\ applied[t] = 1

C3_CloseAfterAllOutcomes ==
    /\ ~panicked
    /\ \A t \in Targets :
          /\ sent[t] <= 1
          /\ worker[t].pc \in {"release", "done"} => sent[t] = 1
          /\ worker[t].pc \notin {"release", "done"} => sent[t] = 0
    /\ updatesClosed =>
          /\ \A t \in JobSet :
                sent[t] = 1 /\ applied[t] = 1 /\ worker[t].pc = "done"
          /\ \A t \in Targets \ JobSet : worker[t].pc \in {"idle", "done"}
          /\ results = <<>>
          /\ resultsClosed
          /\ collector.pc = "done"

\* C3 witness: the stream is closed after a pass of at least two jobs.
C3_Witness == updatesClosed /\ Len(jobs) >= 2

\* ------------------------------------------------- claims on one executor
\* the operations of one kind an executor performed, in order
Ops(t, name) == SelectSeq(oplog[t], LAMBDA o : o.op = name)

\* the backoff waits an executor performed, in order, in seconds
Waits(t) == [i \in 1..Len(Ops(t, "sleep")) |-> Ops(t, "sleep")[i].arg \div Second]

\* CloneRepository has returned
Returned(t) == worker[t].pc \in {"return", "release", "done"}

\* the target directory held a working copy before the pass
HadWorkingCopy(t) == fs0[repositories[t].Name] = "repo"

\* the pass has applied the target's outcome
Settled(t) == applied[t] = 1 /\ worker[t].pc = "done"

AllFailed(ops) == \A i \in 1..Len(ops) : ~ops[i].ok

\* C4 (as claimed): once a target's status is Success, Failed or Skipped, no
\* later step of the pass changes it.
C4_TerminalIsStable ==
    [][\A t \in Registry :
          repositories[t].Status \in Terminal =>
              repositories'[t].Status = repositories[t].Status]_vars

\* C5 (as claimed): under SkipExisting with a working copy in place, the
\* executor removes nothing, runs no fetch, reset or clone, returns success,
\* and the target ends Skipped.
C5_SkipExistingEndsSkipped ==
    \A t \in Registry :
        repositories[t].ExistingRepo = SkipExisting /\ HadWorkingCopy(t) =>
            /\ \A i \in 1..Len(oplog[t]) :
                  oplog[t][i].op \notin {"remove", "fetch", "reset", "clone"}
            /\ Returned(t) => worker[t].err = NoError
            /\ Settled(t) => repositories[t].Status = StatusSkipped

\* C6 (as claimed): under OverwriteExisting with a working copy in place, the
\* directory is removed before the first clone attempt, and when a clone
\* then succeeds the target ends Success.
C6_OverwriteEndsSuccess ==
    \A t \in Registry :
        repositories[t].ExistingRepo = OverwriteExisting /\ HadWorkingCopy(t) =>
            /\ \A i \in 1..Len(oplog[t]) :
                  oplog[t][i].op = "clone" =>
                      \E j \in 1..(i - 1) :
                          oplog[t][j].op = "remove" /\ oplog[t][j].ok
            /\ (Settled(t) /\ \E i \in 1..Len(oplog[t]) :
                      oplog[t][i].op = "clone" /\ oplog[t][i].ok)
                  => repositories[t].Status = StatusSuccess

\* C7 (as claimed): under FetchOnly with a working copy in place, a
\* successful fetch and reset is returned as the executor's success with no
\* clone attempt, and the target ends Success.
C7_FetchOnlyReturnsUpdate ==
    \A t \in Registry :
        (/\ repositories[t].ExistingRepo = FetchOnly
         /\ HadWorkingCopy(t)
         /\ \E i \in 1..Len(oplog[t]) :
               oplog[t][i].op = "reset" /\ oplog[t][i].ok) =>
            /\ Ops(t, "clone") = <<>>
            /\ Returned(t) => worker[t].err = NoError
            /\ Settled(t) => repositories[t].Status = StatusSuccess

\* C8 (as claimed): under FetchOnly with a working copy in place and no
\* cancellation, a failed update is retried: when every fetch fails the target ends Failed after
\* exactly MaxRetries + 1 fetches with waits of 1, 2, 4 seconds between them,
\* and when a fetch succeeds after earlier ones failed it ends Success.
C8_FetchOnlyRetriesUpdate ==
    \A t \in Registry :
        (/\ repositories[t].ExistingRepo = FetchOnly
         /\ HadWorkingCopy(t)
         /\ Settled(t)
         /\ ~ctxDone
         /\ Ops(t, "fetch") # <<>>) =>
            LET f == Ops(t, "fetch") IN
            /\ AllFailed(f) =>
                  /\ Len(f) = MaxRetries + 1
                  /\ Waits(t) = <<1, 2, 4>>
                  /\ repositories[t].Status = StatusFailed
            /\ (~f[1].ok /\ f[Len(f)].ok) =>
                  repositories[t].Status = StatusSuccess

\* the clone attempts of one executor are numbered 0, 1, ..., none follows a
\* successful one, there are at most MaxRetries + 1, and the executor
\* returns success after a successful attempt and failure after
\* MaxRetries + 1 failed ones
BoundedAttempts(t) ==
    LET c == Ops(t, "clone") IN
    /\ Len(c) <= MaxRetries + 1
    /\ \A i \in 1..Len(c) : c[i].arg = i - 1
    /\ \A i \in 1..(Len(c) - 1) : ~c[i].ok
    /\ (Returned(t) /\ c # <<>>) =>
          IF c[Len(c)].ok
          THEN worker[t].err = NoError
          ELSE Len(c) = MaxRetries + 1 /\ worker[t].err # NoError

C10_ExponentialBackoff ==
    \A t \in Targets :
        /\ \A i \in 1..Len(oplog[t]) :
              LET o == oplog[t][i] IN
              /\ (o.op = "clone" /\ o.arg = 0) =>
                    (i = 1 \/ oplog[t][i - 1].op # "sleep")
              /\ (o.op = "clone" /\ o.arg >= 1) =>
                    /\ i > 2
                    /\ oplog[t][i - 1].op = "sleep"
                    /\ oplog[t][i - 1].arg = (2 ^ (o.arg - 1)) * Second
                    /\ oplog[t][i - 2].op = "clone"
                    /\ oplog[t][i - 2].arg = o.arg - 1
              /\ o.op = "sleep" =>
                    /\ i > 1
                    /\ oplog[t][i - 1].op = "clone"
                    /\ ~oplog[t][i - 1].ok
        /\ (MaxRetries = 3 /\ Len(Ops(t, "clone")) = MaxRetries + 1) =>
              Waits(t) = <<1, 2, 4>>

\* C10 witness: an executor failed all its attempts, having waited 1, 2 and
\* 4 seconds.
C10_Witness ==
    \E t \in Registry :
        /\ worker[t].pc = "done"
        /\ AllFailed(Ops(t, "clone"))
        /\ Waits(t) = <<1, 2, 4>>

\* ------------------------------------------------ claims on fatal failures
\* the executor's last side effect is a failed operation of this kind
FailedAt(t, name) ==
    /\ oplog[t] # <<>>
    /\ oplog[t][Len(oplog[t])].op = name
    /\ ~oplog[t][Len(oplog[t])].ok

\* some operation of this kind failed in the executor
HasFailed(t, name) ==
    \E i \in 1..Len(oplog[t]) : oplog[t][i].op = name /\ ~oplog[t][i].ok

MkdirError == Wrap("failed to create target directory: ", <<"mkdir: permission denied">>)
RemoveError == Wrap("failed to remove existing repository: ", <<"unlinkat: permission denied">>)

\* C11: when creating the target directory fails, or removing the working
\* copy under OverwriteExisting fails, that operation is the executor's last:
\* it returns that error with no clone attempt and no backoff wait, and the
\* target ends Failed carrying the error.
C11_FatalFailureIsImmediate ==
    \A t \in Registry :
        \A name \in {"mkdir", "remove"} :
            HasFailed(t, name) =>
                LET e == IF name = "mkdir" THEN MkdirError ELSE RemoveError IN
                /\ FailedAt(t, name)
                /\ Ops(t, "clone") = <<>>
                /\ Ops(t, "sleep") = <<>>
                /\ Returned(t)
                /\ worker[t].err = e
                /\ Settled(t) =>
                      /\ repositories[t].Status = StatusFailed
                      /\ repositories[t].Error = e

\* C11 witness: a target ended Failed with the error of a failed removal of
\* its working copy.
C11_Witness ==
    \E t \in Registry :
        /\ repositories[t].ExistingRepo = OverwriteExisting
        /\ FailedAt(t, "remove")
        /\ Settled(t)
        /\ repositories[t].Status = StatusFailed
        /\ repositories[t].Error = RemoveError

\* ------------------------------------------------- claims on sibling targets
\* a's executor failed, b's succeeded, and both outcomes have been applied
FailedBesideSucceeded(a, b) ==
    /\ a # b
    /\ DistinctURLs
    /\ Settled(a) /\ Settled(b)
    /\ worker[a].err # NoError
    /\ worker[b].err = NoError

C13_NoAdmissionAfterCancel ==
    [][ctxDone =>
          \A t \in Targets :
              worker[t].pc = "acquire" => worker'[t].pc = "acquire"]_vars

\* the step appends an operation of one of these kinds to the executor's log
Performs(t, kinds) ==
    /\ Len(oplog'[t]) = Len(oplog[t]) + 1
    /\ oplog'[t][Len(oplog'[t])].op \in kinds

\* C14 (as claimed): an executor that was in a git invocation or a backoff
\* wait when the context was cancelled makes, once that operation has ended,
\* no further clone attempt and no further backoff wait.
C14_AbortsPromptly ==
    [][\A t \in Targets :
          (ctxDone /\ worker[t].hit /\ ~worker[t].inflight) =>
              ~Performs(t, {"clone", "sleep"})]_vars

\* errors.Is(err, context.Canceled): the error wraps the context's error
CancellationClass(err) == Contains(err, Canceled)

\* C15 (as claimed): an executor returns an error of the cancellation class
\* exactly when its run was ended by the cancellation signal (its last git
\* invocation failed because of the context), so that such an outcome can be
\* told from an ordinary retry-exhausted or fatal failure.
C15_CancellationIsDistinct ==
    \A t \in Registry :
        (Returned(t) /\ worker[t].err # NoError) =>
            (worker[t].ctxErr <=> CancellationClass(worker[t].err))

\* ------------------------------------------------ claims on the result loop
\* the step is the result loop's update of a target with an outcome
AppliesOutcome == collector.pc = "locked" /\ collector'.pc = "send"

\* C16: when the result loop applies an outcome to its target, a success
\* makes the status Success unless it is Skipped, which it stays, a failure
\* makes it Failed and sets the target's error to the outcome's; the outcome
\* is the one the target's executor returned (URLs being distinct), the
\* target's progress is kept, and no other target is changed.
C16_OutcomeApplied ==
    [][AppliesOutcome =>
          LET i == collector.repo
              r == collector.result
              old == repositories[i]
              new == repositories'[i] IN
          /\ DistinctURLs =>
                /\ r.RepoURL = old.URL
                /\ r.Error = worker[i].err
                /\ r.Success = (worker[i].err = NoError)
          /\ (r.Success /\ old.Status # StatusSkipped) =>
                new = [old EXCEPT !.Status = StatusSuccess]
          /\ (r.Success /\ old.Status = StatusSkipped) => new = old
          /\ ~r.Success =>
                new = [old EXCEPT !.Status = StatusFailed, !.Error = r.Error]
          /\ \A j \in Registry : j # i => repositories'[j] = repositories[j]]_vars

\* C16 witness: beside a target that ended Failed, a success was applied to
\* a target whose status was Skipped, and it stayed Skipped.
C16_Witness ==
    \E a, b \in Registry :
        /\ a # b
        /\ Settled(a) /\ worker[a].err = NoError
        /\ repositories[a].Status = StatusSkipped
        /\ Settled(b) /\ repositories[b].Status = StatusFailed

\* a target registered before t has t's URL
HasEarlierTwin(t) ==
    \E i \in Registry : i < t /\ repositories[i].URL = repositories[t].URL

\* C17: registration accepts a target whose URL is registered already; every
\* outcome is applied to the first-registered target of its URL, and a
\* later-registered target of the same URL never has an outcome applied: the
\* result loop neither locks it nor sets its status, and when the stream is
\* closed the first-registered target has had the outcomes of all the jobs
\* of its URL.
C17_FirstMatchWins ==
    /\ \A t \in Registry :
          HasEarlierTwin(t) =>
              /\ applied[t] = 0
              /\ mu[t] # "collector"
              /\ collector.pc # "collect" => collector.repo # t
              /\ repositories[t].Status \notin {StatusSuccess, StatusFailed}
    /\ collector.pc \in {"lock", "locked", "send"} =>
          /\ repositories[collector.repo].URL = collector.result.RepoURL
          /\ ~HasEarlierTwin(collector.repo)
    /\ updatesClosed =>
          \A t \in Registry :
              ~HasEarlierTwin(t) =>
                  applied[t] = Cardinality({j \in JobSet :
                                   repositories[j].URL = repositories[t].URL})

\* C17 witness: two targets of one URL were registered, the pass is over,
\* both outcomes went to the first and the second is not terminal.
C17_Witness ==
    /\ updatesClosed
    /\ Len(repositories) = 2
    /\ repositories[1].URL = repositories[2].URL
    /\ applied[1] = 2
    /\ applied[2] = 0
    /\ repositories[2].Status \notin Terminal

\* ------------------------------------------------------- claims on passes
\* the step is a call of CloneAll
StartsPass == pass' = pass + 1

\* the step appends an event of target t to the update stream
Emits(t) ==
    /\ Len(updates') = Len(updates) + 1
    /\ updates'[Len(updates')].repo = t

\* C18: CloneAll builds one job for each target that is Pending when it is
\* called, in registration order, and none for any other target; during the
\* pass a target without a job has no worker, emits no event and keeps its
\* status, progress and error (URLs being distinct); a pass without jobs runs
\* no executor, emits no event and closes its stream.
C18_JobsForPendingOnly ==
    /\ [][StartsPass =>
             /\ {jobs'[k] : k \in 1..Len(jobs')} =
                    {i \in Registry : repositories[i].Status = StatusPending}
             /\ \A k \in 1..(Len(jobs') - 1) : jobs'[k] < jobs'[k + 1]]_vars
    /\ [][(pass >= 1 /\ ~StartsPass /\ DistinctURLs) =>
             \A t \in Registry \ JobSet :
                 /\ repositories'[t] = repositories[t]
                 /\ worker'[t] = worker[t]
                 /\ ~Emits(t)]_vars
    /\ []((pass >= 1 /\ jobs = <<>>) =>
             /\ updates = <<>>
             /\ results = <<>>
             /\ semaphore = 0
             /\ \A t \in Targets : worker[t].pc \in {"idle", "done"})
    /\ (pass >= 1 /\ jobs = <<>>) ~> updatesClosed

\* C18 witness: a second pass on a manager whose targets are all terminal
\* has closed its stream, having built no job.
C18_Witness ==
    /\ pass = 2
    /\ Len(repositories) = 2
    /\ \A t \in Registry : repositories[t].Status \in Terminal
    /\ jobs = <<>>
    /\ updatesClosed

\* ------------------------------------------------ claims on the update stream
\* the events of target t put on the stream so far, in stream order: those
\* the consumer received, then those in the buffer
EventsOf(t) ==
    LET q == SelectSeq(updates, LAMBDA e : e.repo = t) IN
    seen[t] \o [i \in 1..Len(q) |-> [kind |-> q[i].kind, seq |-> q[i].seq]]

\* the worker is inside a ProgressFunc call whose event is not sent yet
InCallback(t) == worker[t].pc \in {"lock", "locked", "send"}

HolderAtUpdate(t) ==
    /\ mu[t] = "worker" => worker[t].pc = "locked"
    /\ mu[t] = "collector" => collector.pc = "locked" /\ collector.repo = t

\* a goroutine is inside Lock() of target t's mutex
WaitsForLock(t) ==
    \/ worker[t].pc = "lock"
    \/ collector.pc = "lock" /\ collector.repo = t

\* C20: whoever holds a target's lock is at the field update it guards, never
\* at a send on the update stream, at the admission gate, in a backoff wait
\* or in a git invocation; a goroutine at a field update holds the lock; and
\* a goroutine that waits for a target's lock waits for a holder that can
\* go on, so no state is a deadlock on a target lock.
C20_LockHeldOnlyForUpdate ==
    \A t \in Targets :
        /\ HolderAtUpdate(t)
        /\ worker[t].pc = "locked" => mu[t] = "worker"
        /\ (collector.pc = "locked" /\ collector.repo = t) => mu[t] = "collector"
        /\ worker[t].pc \in {"send", "acquire", "sleep"} \cup GitPcs =>
              mu[t] # "worker"
        /\ collector.pc = "send" => mu[t] # "collector"
        /\ (WaitsForLock(t) /\ mu[t] # Free) =>
              \/ (mu[t] = "worker" /\ ENABLED UpdateProgress(t))
              \/ (mu[t] = "collector" /\ ENABLED UpdateOutcome)

\* C20 witness: the worker of a target waits in its callback for the lock
\* the result loop holds on the same target.
C20_Witness ==
    \E t \in Registry :
        /\ worker[t].pc = "lock"
        /\ mu[t] = "collector"

\* ------------------------------------------- claims on the guarded fields
\* the step changes Status, Progress or Error of target t
WritesFields(t) ==
    \/ repositories'[t].Status # repositories[t].Status
    \/ repositories'[t].Progress # repositories[t].Progress
    \/ repositories'[t].Error # repositories[t].Error

\* C21: every step that writes Status, Progress or Error of a target is
\* taken by the goroutine that holds the target's lock, and so is every step
\* that reads them: CloneAll, which reads the Status of every registered
\* target to pick the Pending ones, holds the lock of each target it reads.
C21_AccessUnderLock ==
    [][\A t \in Registry :
          /\ WritesFields(t) =>
                \/ mu[t] = "worker" /\ worker[t].pc = "locked"
                \/ mu[t] = "collector" /\ collector.pc = "locked"
                                       /\ collector.repo = t
          /\ StartsPass => mu[t] = "collector"]_vars

\* ------------------------------------------------ claims on admission slots
\* the step is the one by which job t gives its slot back
Releases(t) == t \in Running /\ worker'[t].pc \in {"idle", "acquire", "done"}

\* C22: the slots held are those of the jobs between admission and release,
\* one each; a job gives its slot back in one step, after its executor has
\* returned and its result is sent, whatever the executor returned, and no
\* other step lowers the number of held slots; a job that holds a slot
\* eventually gives it back (git invocations ending and the consumer
\* receiving); and when a pass has completed no slot is held, so that a later
\* pass on the same cloner starts with every slot free.
C22_SlotReleasedOnce ==
    /\ [](semaphore = Cardinality(Running) /\ semaphore >= 0)
    /\ [][/\ \A t \in Targets : Releases(t) =>
                /\ worker[t].pc = "release"
                /\ sent[t] = 1
                /\ semaphore' = semaphore - 1
          /\ semaphore' < semaphore => \E t \in Targets : Releases(t)]_vars
    /\ \A t \in Targets : (t \in Running) ~> (t \notin Running)
    /\ [](collector.pc = "done" => semaphore = 0)
    /\ [][StartsPass => semaphore = 0 /\ semaphore' = 0]_vars

\* C22 witness: in a second pass a job holds the one slot of the cloner,
\* which a job of the first pass, whose executor failed, held and gave back.
C22_Witness ==
    /\ pass = 2
    /\ maxConcurrent = 1
    /\ semaphore = 1
    /\ \E a, b \in Registry :
          /\ worker[a].pc = "done"
          /\ repositories[a].Status = StatusFailed
          /\ b \in Running

\* ------------------------------------------- claims on the retry messages
\* CloneRepository has returned the error of the exhausted retry loop
GaveUp(t) ==
    /\ Returned(t)
    /\ worker[t].err # NoError
    /\ worker[t].err[1] = "failed to clone after "

\* C23: the error returned when every clone attempt failed wraps the error
\* of the last attempt, and the number of attempts it states is the number
\* of clone attempts the executor made, MaxRetries + 1.
C23_GiveUpStatesAttempts ==
    \A t \in Registry :
        GaveUp(t) =>
            /\ AllFailed(Ops(t, "clone"))
            /\ Len(Ops(t, "clone")) = MaxRetries + 1
            /\ SubSeq(worker[t].err, 4, Len(worker[t].err)) = worker[t].lastErr
            /\ worker[t].err[2] = ToString(Len(Ops(t, "clone")))

\* the progress message of the executor's last ProgressFunc call is the
\* retry message of line 182
RetryMessage(t) == worker[t].msg # <<>> /\ worker[t].msg[1] = "Retrying in "

\* strconv.Atoi of a number a retry message can hold
Atoi(s) == CHOOSE n \in 0..(2 ^ MaxRetries) : ToString(n) = s

\* the step is a backoff wait of target t
SleepsNow(t) ==
    /\ Len(oplog'[t]) = Len(oplog[t]) + 1
    /\ oplog'[t][Len(oplog'[t])].op = "sleep"

\* C24: every backoff wait follows the retry message of its attempt, the
\* wait the message names is the wait performed, 2^(k-1) seconds before
\* retry k, and the attempt number a retry message names is at most the
\* total number of attempts it names.
C24_RetryMessageIsConsistent ==
    /\ [](\A t \in Registry :
             /\ worker[t].pc = "sleep" =>
                   /\ RetryMessage(t)
                   /\ worker[t].attempt \in 1..MaxRetries
                   /\ SubSeq(worker[t].msg, 2, 3) =
                          FormatDuration(Backoff(worker[t].attempt))
             /\ RetryMessage(t) =>
                   Atoi(worker[t].msg[5]) <= Atoi(worker[t].msg[7]))
    /\ [][\A t \in Registry : SleepsNow(t) =>
             oplog'[t][Len(oplog'[t])].arg =
                 Atoi(worker[t].msg[2]) * Second]_vars

\* ------------------------------------------------ claims on the front end
\* the repositories that are selected: those the selection view marks
Selected ==
    {k \in DOMAIN m.repositories.selectedRepos :
        m.repositories.selectedRepos[k]}

\* the step is a key pressed in the selection view
KeyInRepositories == m.currentView = ViewRepositories /\ m'.keys = m.keys + 1

\* C25: a key pressed in the selection view switches to the progress view
\* and returns the command startCloning only if at least one repository is
\* selected when it is pressed; with no repository selected, none toggled
\* or every one toggled off again, the view stays the selection view.
C25_EnterNeedsSelection ==
    [][KeyInRepositories =>
          /\ (m'.currentView = ViewProgress \/ m'.cmd = "startCloning") =>
                Selected # {}
          /\ Selected = {} => m'.currentView = ViewRepositories \/ m'.quit]_vars

\* the step is the request of the listing call for one API page
IssuesRequest ==
    /\ Len(client'.log) = Len(client.log) + 1
    /\ client'.log[Len(client'.log)].op = "request"

\* the step is GetRateLimit answering inside WaitForRateLimit
AnswersRateLimit ==
    /\ client.pc = "WaitForRateLimit"
    /\ client'.pc \notin {"WaitForRateLimit", "return"}

C27_UpdateRunsInOwnDirectory ==
    \A t \in Registry :
        \A i \in 1..Len(oplog[t]) :
            oplog[t][i].op \in {"fetch", "reset"} =>
                oplog[t][i].dir = DirOf(t)

\* C35 (as claimed): when a pass that made FetchOnly updates has completed,
\* the process working directory is what it was before the pass started.
C35_WorkingDirectoryRestored ==
    (/\ collector.pc = "done"
     /\ \E t \in Registry : Ops(t, "fetch") # <<>>)
        => cwd = OrigDir

\* ------------------------------------------------ claims on the snapshots
\* the step is the consumer receiving the head of the update stream
ReceivesNow == updates # <<>> /\ updates' = Tail(updates)

\* C28: what the consumer observes of a target through an element it
\* receives from the update stream (GetStatus on the element, no writer
\* holding the target's lock) is what the target's status, error and
\* progress message were when the element was sent.
C28_ElementIsSnapshot ==
    [][(ReceivesNow /\ mu[Head(updates).repo] = Free) =>
          Fields(Head(updates).repo) = Head(updates).was]_vars

\* ------------------------------------------------ claims on the resolver
\* the messages handleExistingRepo and fetchAndUpdate emit first
ResolverMessages ==
    {"Skipping", "Removing existing repository: ", "Updating",
     "Successfully updated repository: "}

\* C29: under every policy, when the target directory holds no working
\* copy, handleExistingRepo returns nil in one step that removes nothing,
\* emits no message and changes no field of the target, and the executor
\* goes on to its first clone attempt; the executor of such a target never
\* removes, fetches or resets and never emits a message of the resolver.
C29_NoWorkingCopyGoesToClone ==
    /\ [](\A t \in Registry : ~HadWorkingCopy(t) =>
             /\ Ops(t, "remove") = <<>>
             /\ Ops(t, "fetch") = <<>>
             /\ Ops(t, "reset") = <<>>
             /\ worker[t].msg # <<>> => worker[t].msg[1] \notin ResolverMessages)
    /\ [][\A t \in Registry :
             (~HadWorkingCopy(t) /\ worker[t].pc = "resolve"
                  /\ worker'[t].pc # "resolve") =>
                 /\ worker'[t].pc = "clone"
                 /\ worker'[t].attempt = 0
                 /\ worker'[t].err = NoError
                 /\ worker'[t].seq = worker[t].seq
                 /\ UNCHANGED <<oplog, fs, repositories, updates>>]_vars

\* C29 witness: the executor of a FetchOnly target whose directory existed
\* without a working copy has made a clone attempt.
C29_Witness ==
    \E t \in Registry :
        /\ ~HadWorkingCopy(t)
        /\ repositories[t].ExistingRepo = FetchOnly
        /\ fs0[repositories[t].Name] = "dir"
        /\ Ops(t, "clone") # <<>>

\* ------------------------------------------------ claims on admission order
\* C30: the admission gate prefers no job: whenever a slot is free, every
\* job that waits at the gate can take it, whatever the order in which the
\* jobs were submitted, so a job submitted later can be admitted, and have
\* its outcome applied, before a job submitted earlier.
C30_AdmissionIsNotFIFO ==
    \A t \in Targets :
        (worker[t].pc = "acquire" /\ semaphore < maxConcurrent) =>
            ENABLED Acquire(t)

\* C30 witness: on a cloner of one slot the outcome of the job submitted
\* second is applied while the job submitted first still waits at the gate.
C30_Witness ==
    /\ maxConcurrent = 1
    /\ Len(jobs) = 2
    /\ worker[jobs[1]].pc = "acquire"
    /\ worker[jobs[2]].pc = "done"
    /\ applied[jobs[2]] = 1
    /\ applied[jobs[1]] = 0

\* ------------------------------------------------ claims on the filter
\* the repository satisfies every criterion the filter sets
Satisfies(repo, filter) ==
    /\ filter.Visibility = "public" => ~repo.Private
    /\ filter.Visibility = "private" => repo.Private
    /\ \A k \in 1..Len(filter.Topics) :
          \E j \in 1..Len(repo.Topics) :
              EqualFold(repo.Topics[j], filter.Topics[k])
    /\ filter.UpdatedAfter # 0 => repo.UpdatedAt >= filter.UpdatedAfter
    /\ filter.MinSize > 0 => repo.Size >= filter.MinSize
    /\ filter.MaxSize > 0 => repo.Size <= filter.MaxSize
    /\ filter.Language # "" => EqualFold(repo.Language, filter.Language)
    /\ filter.Archived # <<>> => repo.Archived = filter.Archived[1]
    /\ filter.Fork # <<>> => repo.Fork = filter.Fork[1]

\* the filter sets no criterion
NoCriterion(filter) ==
    /\ filter.Visibility \in {"", "all"}
    /\ filter.Topics = <<>>
    /\ filter.UpdatedAfter = 0
    /\ filter.MinSize = 0
    /\ filter.MaxSize = 0
    /\ filter.Language = ""
    /\ filter.Archived = <<>>
    /\ filter.Fork = <<>>

\* no element of the list occurs twice
NoDuplicates(list) ==
    \A i, j \in 1..Len(list) : i # j => list[i] # list[j]

\* C31: FilterRepositories returns the repositories of its input that
\* satisfy every criterion the filter sets, each once for each time it is
\* listed and in the order of the input, so without duplicates when the
\* input has none (topics and language compared without regard to case, a
\* repository updated at the given time counting as updated after it); with
\* a nil filter, or one that sets no criterion, it returns the whole input.
C31_FilterKeepsMatching ==
    LET f == filtering.filter
        Keep(repo) == f = <<>> \/ Satisfies(repo, f[1]) IN
    /\ filtering.pc = "loop" =>
          filtering.filtered =
              SelectSeq(SubSeq(filtering.repos, 1, filtering.i - 1), Keep)
    /\ filtering.pc = "done" =>
          /\ filtering.result = SelectSeq(filtering.repos, Keep)
          /\ NoDuplicates(filtering.repos) => NoDuplicates(filtering.result)
          /\ (f = <<>> \/ NoCriterion(f[1])) =>
                filtering.result = filtering.repos

\* C31 witness: of two listed repositories the filter returned the second
\* alone, which has the required topics in another case.
C31_Witness ==
    /\ filtering.pc = "done"
    /\ Len(filtering.repos) = 2
    /\ filtering.filter # <<>>
    /\ filtering.filter[1].Topics = <<"GO">>
    /\ filtering.filter[1].Archived = <<TRUE>>
    /\ filtering.result = <<filtering.repos[2]>>
    /\ filtering.repos[2].Topics = <<"go">>

\* ------------------------------------------- claims on the Skipped status
\* C32 (as claimed): a target whose executor attempted a clone, a removal
\* or an update never has status Skipped, whatever text its name contains.
C32_SkippedOnlyBySkipping ==
    \A t \in Registry :
        repositories[t].Status = StatusSkipped =>
            \A i \in 1..Len(oplog[t]) :
                oplog[t][i].op \notin {"remove", "fetch", "reset", "clone"}

\* ------------------------------------------ claims on a stalled consumer
\* the workers blocked emitting a progress event onto the full stream
BlockedOnStream ==
    {t \in Targets : worker[t].pc = "send" /\ Len(updates) >= UpdatesCap}

\* C33: a worker blocked emitting a progress event onto the full update
\* stream holds its admission slot, and nothing but the consumer receiving
\* an element unblocks it: over every step in which the consumer receives
\* nothing the worker stays blocked in its slot and the stream stays full and
\* open, and while blocked workers hold every slot no queued job is admitted.
C33_BlockedWorkerKeepsSlot ==
    [][/\ BlockedOnStream \subseteq Running
       /\ BlockedOnStream # {} => ~updatesClosed
       /\ ~ReceivesNow =>
             /\ BlockedOnStream \subseteq BlockedOnStream'
             /\ BlockedOnStream # {} => ~updatesClosed'
       /\ Cardinality(BlockedOnStream) = maxConcurrent =>
             \A u \in Targets :
                 worker[u].pc = "acquire" => worker'[u].pc = "acquire"]_vars

\* C33 witness: the only slot is held by a worker blocked on the full
\* stream, which holds two of its own events, while the other job waits for
\* the slot.
C33_Witness ==
    /\ maxConcurrent = 1
    /\ BlockedOnStream # {}
    /\ Len(updates) = 2
    /\ \E u \in Targets : worker[u].pc = "acquire"
    /\ ~updatesClosed

\* -------------------------------------------- claims on a cloner of no slot
\* C34: on a cloner built with maxConcurrent = 0, in a pass that has a
\* Pending target, no job acquires a slot, no executor starts, and the
\* update stream is not closed.
C34_NoSlotNoProgress ==
    maxConcurrent = 0 /\ pass >= 1 /\ jobs # <<>> =>
        /\ semaphore = 0
        /\ Running = {}
        /\ \A t \in Targets : oplog[t] = <<>> /\ worker[t].pc \in {"idle", "acquire"}
        /\ \A t \in JobSet : repositories[t].Status = StatusPending
        /\ ~resultsClosed
        /\ ~updatesClosed

\* C34 witness: both jobs of a pass on a cloner of no slot wait at the gate.
C34_Witness ==
    /\ maxConcurrent = 0
    /\ Len(jobs) = 2
    /\ \A t \in JobSet : worker[t].pc = "acquire"

\* ------------------------------------------ claims on the statuses of a pass
\* the statuses a pass assigns
PassStatuses == {StatusCloning, StatusUpdating, StatusSkipped, StatusSuccess,
                 StatusFailed}

KeyInOrganization ==
    m.currentView = ViewOrganization /\ m'.keys = m.keys + 1

\* the step leaves the organization view, and it is Enter on a non-blank
\* input going to the repository view with the trimmed name
LeavesByEnter ==
    m'.currentView # ViewOrganization =>
        /\ TrimSpace(m.organization.input) # <<>>
        /\ m'.currentView = ViewRepositories
        /\ m'.organization.name = TrimSpace(m.organization.input)
        /\ m'.cmd = "fetchRepositories"

\* C38 (as claimed): in the organization input view a typed character is
\* appended to the input and does not end the program: only Ctrl+C quits,
\* and only Enter on a non-blank input leaves the view, for the repository
\* view with the trimmed name.
C38_TypingNeverQuits ==
    [][KeyInOrganization =>
          /\ m'.quit => m'.quitKey = "ctrl+c"
          /\ LeavesByEnter]_vars

\* ---------------------------------------- claims on the selection view
\* ceil(n / d)
CeilDiv(n, d) == CHOOSE k \in 0..n : k * d >= n /\ (k = 0 \/ (k - 1) * d < n)

\* the page and the cursor of the selection view are within the list
CursorOnPage(r) ==
    LET n == Len(r.repositories)
        onPage == Len(GetPageRepos(r)) IN
    /\ r.page >= 0
    /\ n > 0 => r.page < r.totalPages
    /\ r.totalPages = CeilDiv(n, reposPerPage)
    /\ r.cursor >= 0
    /\ r.cursor <= (IF onPage - 1 > 0 THEN onPage - 1 ELSE 0)
    /\ n > 0 => r.cursor < onPage

\* C39: in the selection view, after any keys and any update of the list,
\* 0 <= page, page < totalPages when the list is not empty, totalPages =
\* ceil(len(repositories) / 10) and 0 <= cursor <= max(0, repositories on the
\* page - 1); so a step that changes the selection toggles the repository
\* under the cursor on the current page.
C39_CursorStaysOnPage ==
    [][/\ CursorOnPage(m.repositories)
       /\ CursorOnPage(m'.repositories)
       /\ m'.repositories.selectedRepos # m.repositories.selectedRepos =>
             LET r == m.repositories
                 repos == GetPageRepos(r) IN
             /\ r.cursor + 1 \in 1..Len(repos)
             /\ m'.repositories.selectedRepos =
                    MapSet(r.selectedRepos, repos[r.cursor + 1],
                           ~MapGet(r.selectedRepos, repos[r.cursor + 1]))]_vars

\* C39 witness: of eleven listed repositories the one alone on the second
\* page is selected, the cursor on it.
C39_Witness ==
    /\ m.currentView = ViewRepositories
    /\ Len(m.repositories.repositories) = reposPerPage + 1
    /\ m.repositories.page = 1
    /\ m.repositories.cursor = 0
    /\ Selected = {FullName(reposPerPage + 1)}

====
